---------------------------- MODULE Spec2Model ----------------------------
(***************************************************************************)
(* A model of squibble, the schema migration assistant for SQLite          *)
(* databases: the catalog reader (readSchema), the digests (schemaDigest,  *)
(* SQLDigest, DBDigest), the consistency checker (Schema.Check), the       *)
(* history ledger (History, addVersion) and the migration state machine    *)
(* (Schema.Apply), which runs inside one transaction.                      *)
(*                                                                         *)
(* The SQLite engine is modelled by a catalog: a set of sqlite_schema rows *)
(* (each table row also carrying the columns PRAGMA table_xinfo reports)   *)
(* and the rows of the _schema_history table.  SQL text is a sequence of   *)
(* statements; the text of one definition is a sequence of lines, a line   *)
(* a sequence of tokens, the token " " standing for white space.           *)
(* SHA-256 is modelled as an injective function: a digest is the encoded   *)
(* canonical sequence itself, and the empty string is the empty sequence.  *)
(***************************************************************************)
EXTENDS Integers, Sequences, FiniteSets, TLC

(***************************************************************************)
(* Bounds of the model.                                                    *)
(***************************************************************************)
\* the longest list of update rules a Schema value carries
MaxUpdates == 2
\* the wall clock (time.Now, in microseconds) ranges over 1..MaxTime
MaxTime == 2

(***************************************************************************)
(* Strings.  cmp.Compare on strings is modelled by the position of the     *)
(* string in StrOrder, which lists the strings of the model in byte order. *)
(* A SQL text is a sequence of tokens; "\n" ends a line, " " is a blank.   *)
(***************************************************************************)
historyTableName == "_schema_history"

sequenceTableName == "sqlite_sequence"

StrOrder ==
    << "", "\n", " ", "-- comment", "ADD y text", "ADD z blob", "BLOB",
       "CREATE TABLE _schema_history", "CREATE TABLE bar (z integer not null)",
       "CREATE TABLE foo (x text)", "CREATE TABLE foo (x text, y text)",
       "CREATE TABLE sqlite_sequence(name,seq)",
       "CREATE TABLE t (a string)",
       "CREATE TABLE t (id integer primary key autoincrement)",
       "INTEGER", "STRING", "TEXT", "_schema_history", "a", "bar", "blob",
       "digest", "foo", "id", "index", "integer", "name", "schema", "seq",
       "sqlite_autoindex__schema_history_1", "sqlite_sequence", "string",
       "t", "table", "text", "timestamp", "trigger", "view", "w", "x", "y", "z" >>

Rank(str) == CHOOSE k \in 1..Len(StrOrder) : StrOrder[k] = str

\* cmp.Compare(a, b) on two strings: -1, 0 or +1
CompareStr(a, b) ==
    IF a = b THEN 0 ELSE IF Rank(a) < Rank(b) THEN -1 ELSE 1

\* cmp.Compare(a, b) on two SQL texts (token sequences), lexicographically
RECURSIVE CompareText(_, _)
CompareText(a, b) ==
    IF a = <<>> /\ b = <<>> THEN 0
    ELSE IF a = <<>> THEN -1
    ELSE IF b = <<>> THEN 1
    ELSE IF Head(a) # Head(b) THEN CompareStr(Head(a), Head(b))
    ELSE CompareText(Tail(a), Tail(b))

\* strings.ToUpper on the declared type of a column
ToUpper(str) ==
    CASE str = "text" -> "TEXT"
      [] str = "integer" -> "INTEGER"
      [] str = "blob" -> "BLOB"
      [] str = "string" -> "STRING"
      [] OTHER -> str

\* strings.HasPrefix(name, "sqlite_autoindex_") over the names of the model
HasAutoindexPrefix(name) == name \in {"sqlite_autoindex__schema_history_1"}

(***************************************************************************)
(* The SQLite engine: statements and the catalog they act on.              *)
(***************************************************************************)
\* one row of PRAGMA table_xinfo, as the engine reports it
RawCol(name, ctype, notNull, dflt, pk, hidden) ==
    [name |-> name, ctype |-> ctype, notNull |-> notNull, dflt |-> dflt,
     pk |-> pk, hidden |-> hidden]

\* one row of sqlite_schema, with the columns of a table attached
RawRow(type, name, tbl, sql, cols) ==
    [type |-> type, name |-> name, tbl_name |-> tbl, sql |-> sql, cols |-> cols]

Stmt(op, name, cols, sql, flag) ==
    [op |-> op, name |-> name, cols |-> cols, sql |-> sql, flag |-> flag]

NoDefault == <<>>

colX == RawCol("x", "text", FALSE, NoDefault, FALSE, 0)
colY == RawCol("y", "text", FALSE, NoDefault, FALSE, 0)
colZblob == RawCol("z", "blob", FALSE, NoDefault, FALSE, 0)
colZ == RawCol("z", "integer", TRUE, NoDefault, FALSE, 0)
colA == RawCol("a", "string", FALSE, NoDefault, FALSE, 0)
colId == RawCol("id", "integer", FALSE, NoDefault, TRUE, 0)

Comment == Stmt("comment", "", <<>>, <<"-- comment", "\n">>, FALSE)
CreateFooX == Stmt("create_table", "foo", <<colX>>, <<"CREATE TABLE foo (x text)">>, FALSE)
CreateFooXY ==
    Stmt("create_table", "foo", <<colX, colY>>, <<"CREATE TABLE foo (x text, y text)">>, FALSE)
CreateFooYX ==
    Stmt("create_table", "foo", <<colY, colX>>, <<"CREATE TABLE foo (y text, x text)">>, FALSE)
CreateBar ==
    Stmt("create_table", "bar", <<colZ>>, <<"CREATE TABLE bar (z integer not null)">>, FALSE)
CreateT == Stmt("create_table", "t", <<colA>>, <<"CREATE TABLE t (a string)">>, FALSE)
\* a table with an AUTOINCREMENT key: the engine creates sqlite_sequence
CreateTAuto ==
    Stmt("create_table", "t", <<colId>>,
         <<"CREATE TABLE t (id integer primary key autoincrement)">>, TRUE)
DropT == Stmt("drop_table", "t", <<>>, <<>>, FALSE)
DropFoo == Stmt("drop_table", "foo", <<>>, <<>>, FALSE)
AddY == Stmt("add_column", "foo", <<colY>>, <<" ", "ADD y text">>, FALSE)
AddZ == Stmt("add_column", "foo", <<colZblob>>, <<" ", "ADD z blob">>, FALSE)
Bogus == Stmt("syntax_error", "", <<>>, <<>>, FALSE)
\* a view written on two lines, the same with its second line indented, and a
\* view of the same name with another body
CreateViewV ==
    Stmt("create_view", "v", <<>>, <<"CREATE VIEW v AS", "\n", "SELECT x FROM foo">>, FALSE)
CreateViewVIndented ==
    Stmt("create_view", "v", <<>>,
         <<"CREATE VIEW v AS", "\n", " ", "SELECT x FROM foo">>, FALSE)
CreateViewVOther ==
    Stmt("create_view", "v", <<>>, <<"CREATE VIEW v AS", "\n", "SELECT 1">>, FALSE)

\* the rows CREATE TABLE IF NOT EXISTS _schema_history (timestamp INTEGER
\* UNIQUE NOT NULL, digest TEXT NOT NULL, schema BLOB) adds to the catalog
historyTableRows ==
    { RawRow("table", historyTableName, historyTableName,
             <<"CREATE TABLE _schema_history">>,
             << RawCol("timestamp", "INTEGER", TRUE, NoDefault, FALSE, 0),
                RawCol("digest", "TEXT", TRUE, NoDefault, FALSE, 0),
                RawCol("schema", "BLOB", FALSE, NoDefault, FALSE, 0) >>),
      RawRow("index", "sqlite_autoindex__schema_history_1", historyTableName,
             <<>>, <<>>) }

sequenceTableRow ==
    RawRow("table", sequenceTableName, sequenceTableName,
           <<"CREATE TABLE sqlite_sequence(name,seq)">>,
           << RawCol("name", "", FALSE, NoDefault, FALSE, 0),
              RawCol("seq", "", FALSE, NoDefault, FALSE, 0) >>)

\* the engine's answer to one statement: ok and the catalog after it
Done(cat) == [ok |-> TRUE, cat |-> cat]
Failed(cat) == [ok |-> FALSE, cat |-> cat]

NameTaken(cat, name) ==
    \E r \in cat : r.name = name /\ r.type \in {"table", "view", "index"}

ExecStmt(cat, st) ==
    CASE st.op = "comment" -> Done(cat)
      [] st.op = "create_table" ->
            IF NameTaken(cat, st.name) THEN Failed(cat)
            ELSE Done(cat \cup {RawRow("table", st.name, st.name, st.sql, st.cols)}
                          \cup (IF st.flag THEN {sequenceTableRow} ELSE {}))
      [] st.op = "add_column" ->
            IF \E r \in cat : /\ r.type = "table" /\ r.name = st.name
                              /\ \A k \in 1..Len(r.cols) : r.cols[k].name # st.cols[1].name
            THEN Done({ IF r.type = "table" /\ r.name = st.name
                        THEN [r EXCEPT !.cols = r.cols \o st.cols, !.sql = r.sql \o st.sql]
                        ELSE r : r \in cat })
            ELSE Failed(cat)
      [] st.op = "create_view" ->
            IF NameTaken(cat, st.name) THEN Failed(cat)
            ELSE Done(cat \cup {RawRow("view", st.name, st.name, st.sql, <<>>)})
      [] st.op = "drop_table" ->
            IF \E r \in cat : r.type = "table" /\ r.name = st.name
            THEN Done({r \in cat : r.tbl_name # st.name})
            ELSE Failed(cat)
      [] OTHER -> Failed(cat)

\* ExecContext(ctx, text): the statements of a text in order, stopping at the
\* first that fails (the statements before it stay applied)
RECURSIVE ExecText(_, _)
ExecText(cat, text) ==
    IF text = <<>> THEN Done(cat)
    ELSE LET r == ExecStmt(cat, Head(text))
         IN  IF r.ok THEN ExecText(r.cat, Tail(text)) ELSE r

(***************************************************************************)
(* The catalog reader (validate.go).                                       *)
(***************************************************************************)
schemaCol(name, type, notNull, dflt, pk, hidden) ==
    [Name |-> name, Type |-> type, NotNull |-> notNull, Default |-> dflt,
     PrimaryKey |-> pk, Hidden |-> hidden]

schemaRow(type, name, tbl, cols, sql) ==
    [Type |-> type, Name |-> name, TableName |-> tbl, Columns |-> cols, SQL |-> sql]

CompareBool(a, b) == IF a = b THEN 0 ELSE IF b THEN -1 ELSE 1

CompareInt(a, b) == IF a = b THEN 0 ELSE IF a < b THEN -1 ELSE 1

compareSchemaRows(a, b) ==
    IF CompareStr(a.Type, b.Type) # 0 THEN CompareStr(a.Type, b.Type)
    ELSE IF CompareStr(a.Name, b.Name) # 0 THEN CompareStr(a.Name, b.Name)
    ELSE IF CompareStr(a.TableName, b.TableName) # 0
         THEN CompareStr(a.TableName, b.TableName)
    ELSE CompareText(a.SQL, b.SQL)

\* the flags are compared as the text "%v %v %v %d"
compareSchemaCols(a, b) ==
    IF CompareStr(a.Type, b.Type) # 0 THEN CompareStr(a.Type, b.Type)
    ELSE IF CompareStr(a.Name, b.Name) # 0 THEN CompareStr(a.Name, b.Name)
    ELSE IF a.NotNull # b.NotNull THEN CompareBool(a.NotNull, b.NotNull)
    ELSE IF a.PrimaryKey # b.PrimaryKey THEN CompareBool(a.PrimaryKey, b.PrimaryKey)
    ELSE IF (a.Default # NoDefault) # (b.Default # NoDefault)
         THEN CompareBool(a.Default # NoDefault, b.Default # NoDefault)
    ELSE CompareInt(a.Hidden, b.Hidden)

\* SortRows, had readSchema left the rows in the order they were read
SortRowsNot(sq) == sq

\* slices.SortFunc(out, compareSchemaRows)
RECURSIVE SortRows(_)
SortRows(sq) ==
    IF sq = <<>> THEN <<>>
    ELSE LET rest == SortRows(Tail(sq))
             n == Cardinality({k \in 1..Len(rest) : compareSchemaRows(rest[k], Head(sq)) < 0})
         IN  SubSeq(rest, 1, n) \o <<Head(sq)>> \o SubSeq(rest, n + 1, Len(rest))

\* SortCols, had readColumns left the columns in the order of the table
SortColsNot(sq) == sq

\* slices.SortFunc(out, compareSchemaCols)
RECURSIVE SortCols(_)
SortCols(sq) ==
    IF sq = <<>> THEN <<>>
    ELSE LET rest == SortCols(Tail(sq))
             n == Cardinality({k \in 1..Len(rest) : compareSchemaCols(rest[k], Head(sq)) < 0})
         IN  SubSeq(rest, 1, n) \o <<Head(sq)>> \o SubSeq(rest, n + 1, Len(rest))

\* the rows of a query, in the order the engine happens to return them
RECURSIVE QueryRows(_)
QueryRows(set) ==
    IF set = {} THEN <<>>
    ELSE LET r == CHOOSE x \in set : TRUE IN <<r>> \o QueryRows(set \ {r})

readColumns(raw) ==
    SortCols([k \in 1..Len(raw.cols) |->
                 schemaCol(raw.cols[k].name, ToUpper(raw.cols[k].ctype),
                           raw.cols[k].notNull, raw.cols[k].dflt, raw.cols[k].pk,
                           raw.cols[k].hidden)])

\* Skipped, had readSchema kept every row of the catalog
SkippedNone(raw) == FALSE

\* the rows readSchema skips: the history and sequence tables with their
\* indices, and the indices SQLite generates
Skipped(raw) ==
    \/ raw.tbl_name = historyTableName
    \/ raw.tbl_name = sequenceTableName
    \/ HasAutoindexPrefix(raw.name)

\* the rows readSchema makes of a result set it read to its end
readRows(order) ==
    LET kept == SelectSeq(order, LAMBDA raw : ~Skipped(raw))
    IN  SortRows([k \in 1..Len(kept) |->
                     schemaRow(kept[k].type, kept[k].name, kept[k].tbl_name,
                               IF kept[k].type = "table" THEN readColumns(kept[k]) ELSE <<>>,
                               kept[k].sql)])

readSchema(cat) == readRows(QueryRows(cat))

\* Where a read of the catalog goes wrong, if it does:
\*   "query"    QueryContext on sqlite_schema returns an error
\*   "scan"     rows.Scan fails on row at
\*   "columns"  readColumns fails (its query or its Scan) for the table at
\*   "next"     rows.Next reports false after at rows, the iteration having
\*              failed (rows.Err is not consulted)
\*   "colsnext" the same inside readColumns for the table at, after cut columns
ReadFault(kind, at, cut) == [kind |-> kind, at |-> at, cut |-> cut]

NoFault == ReadFault("none", 0, 0)

\* the faults that can befall the reading of a result set
ReadFaults(order) ==
    {NoFault, ReadFault("query", 0, 0)}
    \cup {ReadFault("scan", k, 0) : k \in 1..Len(order)}
    \cup {ReadFault("next", k, 0) : k \in 0..(Len(order) - 1)}
    \cup {ReadFault("columns", k, 0) :
             k \in {n \in 1..Len(order) : ~Skipped(order[n]) /\ order[n].type = "table"}}
    \cup UNION {{ReadFault("colsnext", k, c) : c \in 0..(Len(order[k].cols) - 1)} :
                  k \in {n \in 1..Len(order) : ~Skipped(order[n]) /\ order[n].type = "table"}}

ReadResult(ok, rows) == [ok |-> ok, rows |-> rows]

\* readSchema on the result set the engine returns in the given order, with
\* the fault f: whether err is nil, and the rows returned
readSchemaWith(order, f) ==
    CASE f.kind \in {"query", "scan", "columns"} -> ReadResult(FALSE, <<>>)
      [] f.kind = "next" -> ReadResult(TRUE, readRows(SubSeq(order, 1, f.at)))
      [] f.kind = "colsnext" ->
            ReadResult(TRUE,
                readRows([order EXCEPT ![f.at].cols = SubSeq(@, 1, f.cut)]))
      [] OTHER -> ReadResult(TRUE, readRows(order))

\* schemaIsEmpty, had it taken every schema for empty
schemaIsEmptyAlways(cat) == TRUE

schemaIsEmpty(cat) ==
    LET main == readSchema(cat)
    IN  Len(main) = 0 \/ (Len(main) = 1 /\ main[1].Name = historyTableName)

(***************************************************************************)
(* Digests (squibble.go, textcrime.go).                                    *)
(***************************************************************************)
\* mstr.Lines: the lines of a text, a trailing newline ending the last one
RECURSIVE Lines(_)
Lines(text) ==
    IF text = <<>> THEN <<>>
    ELSE LET nl == {k \in 1..Len(text) : text[k] = "\n"}
         IN  IF nl = {} THEN <<text>>
             ELSE LET k == CHOOSE m \in nl : \A o \in nl : m <= o
                  IN  <<SubSeq(text, 1, k - 1)>> \o Lines(SubSeq(text, k + 1, Len(text)))

\* strings.TrimSpace on one line
RECURSIVE TrimSpace(_)
TrimSpace(line) ==
    IF line = <<>> THEN <<>>
    ELSE IF Head(line) = " " THEN TrimSpace(Tail(line))
    ELSE IF line[Len(line)] = " " THEN TrimSpace(SubSeq(line, 1, Len(line) - 1))
    ELSE line

cleanLines(text) == [k \in 1..Len(Lines(text)) |-> TrimSpace(Lines(text)[k])]

\* strings.Join(lines, " ")
RECURSIVE Join(_)
Join(ls) ==
    IF ls = <<>> THEN <<>>
    ELSE IF Len(ls) = 1 THEN ls[1]
    ELSE ls[1] \o <<" ">> \o Join(Tail(ls))

cleanSQL(text) == Join(cleanLines(text))

\* schemaDigest, had it hashed the SQL of a table as it does that of a view
schemaDigestWithSQL(sr) ==
    << [k \in 1..Len(sr) |-> [sr[k] EXCEPT !.SQL = cleanSQL(sr[k].SQL)]] >>

\* The digest of a canonical sequence.  The SQL of a table is left out, the
\* SQL of another object is cleaned; the JSON encoding and SHA-256 are
\* injective, so the digest is the one-element sequence holding the rows.
schemaDigest(sr) ==
    << [k \in 1..Len(sr) |->
           IF sr[k].Type = "table" THEN [sr[k] EXCEPT !.SQL = <<>>]
           ELSE [sr[k] EXCEPT !.SQL = cleanSQL(sr[k].SQL)]] >>

\* the empty string, where a digest is expected
NoDigest == <<>>

\* schemaTextToRows: the text compiled in a fresh in-memory database
schemaTextToRows(text) ==
    LET r == ExecText({}, text)
    IN  [ok |-> r.ok, rows |-> IF r.ok THEN readSchema(r.cat) ELSE <<>>]

\* SQLDigest: ok is FALSE when the text does not compile
SQLDigest(text) ==
    LET sr == schemaTextToRows(text)
    IN  [ok |-> sr.ok, digest |-> IF sr.ok THEN schemaDigest(sr.rows) ELSE NoDigest]

DBDigest(cat) == schemaDigest(readSchema(cat))

(***************************************************************************)
(* Schema values: the texts and update rules the callers of the model use. *)
(***************************************************************************)
UpdateRule(source, target, apply) ==
    [Source |-> source, Target |-> target, Apply |-> apply]

\* upgrades.go: Exec(stmts...) and NoAction; NilApply is a nil function
Exec(stmts) == [nil |-> FALSE, stmts |-> stmts]
NoAction == [nil |-> FALSE, stmts |-> <<>>]
NilApply == [nil |-> TRUE, stmts |-> <<>>]

\* what an apply function returned: whether it was nil, the catalog of the
\* transaction after it, the position "stmt %d" names, and what the error wraps
ExecResult(ok, cat, at, cause) == [ok |-> ok, cat |-> cat, at |-> at, cause |-> cause]

\* ExecFrom, had it named the statements from 0
RECURSIVE ExecFromZero(_, _, _, _)
ExecFromZero(cat, stmts, k, io) ==
    IF k > Len(stmts) THEN ExecResult(TRUE, cat, 0, "")
    ELSE IF io = k THEN ExecResult(FALSE, cat, k - 1, "io")
    ELSE LET r == ExecText(cat, <<stmts[k]>>)
         IN  IF ~r.ok THEN ExecResult(FALSE, r.cat, k - 1, "sql")
             ELSE ExecFromZero(r.cat, stmts, k + 1, io)

\* the loop of the function Exec returns, from statement k on; io is the
\* position of the statement whose ExecContext fails for a reason that is not
\* the statement (0: none does)
RECURSIVE ExecFrom(_, _, _, _)
ExecFrom(cat, stmts, k, io) ==
    IF k > Len(stmts) THEN ExecResult(TRUE, cat, 0, "")
    ELSE IF io = k THEN ExecResult(FALSE, cat, k, "io")
    ELSE LET r == ExecText(cat, <<stmts[k]>>)
         IN  IF ~r.ok THEN ExecResult(FALSE, r.cat, k, "sql")
             ELSE ExecFrom(r.cat, stmts, k + 1, io)

\* update.Apply(ctx, tx) for a function made by Exec, or NoAction
RunApply(fn, cat, io) == ExecFrom(cat, fn.stmts, 1, io)

V1 == <<CreateFooX>>
\* V1 behind a comment (TestCompatible): another text, the same schema
V1c == <<Comment, CreateFooX>>
V2 == <<CreateFooXY>>
V3 == <<CreateFooXY, CreateBar>>
\* a text that defines no object
VComment == <<Comment>>
\* the empty string, and a text that does not compile
VEmpty == <<>>
VBad == <<Bogus>>

Texts == {V1, V1c, V2, V3, VComment}

d1 == SQLDigest(V1).digest
d2 == SQLDigest(V2).digest
d3 == SQLDigest(V3).digest

R12 == UpdateRule(d1, d2, Exec(<<AddY>>))
R23 == UpdateRule(d2, d3, Exec(<<CreateBar>>))
R21 == UpdateRule(d2, d1, Exec(<<DropFoo, CreateFooX>>))
\* a rule whose function does not produce its target (TestBadUpgrade)
R12bad == UpdateRule(d1, d2, Exec(<<AddY, AddZ>>))
\* a rule whose function fails at its second statement
R12fail == UpdateRule(d1, d2, Exec(<<AddY, Bogus>>))

Rules == {R12, R23, R21, R12bad, R12fail}

Chains == UNION {[1..n -> Rules] : n \in 0..MaxUpdates}

\* the databases a program may open: a new one (mustOpenDB), one with a table
\* of its own (TestUnmanaged), one that already has the schema V1
\* (TestCompatible), one in which an AUTOINCREMENT table was made and dropped
InitScripts == {<<>>, <<CreateT>>, V1, <<CreateTAuto, DropT>>}

(***************************************************************************)
(* Schema.Check and firstPendingUpdate (squibble.go).                      *)
(***************************************************************************)
CheckError(msg, index, want, got) ==
    [msg |-> msg, index |-> index, want |-> want, got |-> got]

\* RuleErrors, had it not looked at the Apply function, or counted from 0
RuleErrorsNoApply(u, k, last) ==
    (IF u.Source = NoDigest THEN <<CheckError("missing source", k, NoDigest, NoDigest)>> ELSE <<>>)
    \o (IF u.Target = NoDigest THEN <<CheckError("missing target", k, NoDigest, NoDigest)>> ELSE <<>>)
    \o (IF last # NoDigest /\ u.Source # last
        THEN <<CheckError("want source", k, last, u.Source)>> ELSE <<>>)
RuleErrorsFromZero(u, k, last) ==
    (IF u.Source = NoDigest THEN <<CheckError("missing source", k - 1, NoDigest, NoDigest)>> ELSE <<>>)
    \o (IF u.Target = NoDigest THEN <<CheckError("missing target", k - 1, NoDigest, NoDigest)>> ELSE <<>>)
    \o (IF u.Apply.nil THEN <<CheckError("missing Apply function", k - 1, NoDigest, NoDigest)>> ELSE <<>>)
    \o (IF last # NoDigest /\ u.Source # last
        THEN <<CheckError("want source", k - 1, last, u.Source)>> ELSE <<>>)

\* the errors of rule k (1-based), given the target of the rule before it
RuleErrors(u, k, last) ==
    (IF u.Source = NoDigest THEN <<CheckError("missing source", k, NoDigest, NoDigest)>> ELSE <<>>)
    \o (IF u.Target = NoDigest THEN <<CheckError("missing target", k, NoDigest, NoDigest)>> ELSE <<>>)
    \o (IF u.Apply.nil THEN <<CheckError("missing Apply function", k, NoDigest, NoDigest)>> ELSE <<>>)
    \o (IF last # NoDigest /\ u.Source # last
        THEN <<CheckError("want source", k, last, u.Source)>> ELSE <<>>)

\* CheckRules, had it stopped at the first rule with an error
RECURSIVE CheckRulesShort(_, _, _, _)
CheckRulesShort(updates, k, last, hc) ==
    IF k > Len(updates)
    THEN IF last # NoDigest /\ last # hc
         THEN <<CheckError("missing upgrade", 0, last, hc)>> ELSE <<>>
    ELSE IF RuleErrors(updates[k], k, last) # <<>> THEN RuleErrors(updates[k], k, last)
    ELSE CheckRulesShort(updates, k + 1, updates[k].Target, hc)

RECURSIVE CheckRules(_, _, _, _)
CheckRules(updates, k, last, hc) ==
    IF k > Len(updates)
    THEN IF last # NoDigest /\ last # hc
         THEN <<CheckError("missing upgrade", 0, last, hc)>> ELSE <<>>
    ELSE RuleErrors(updates[k], k, last)
         \o CheckRules(updates, k + 1, updates[k].Target, hc)

\* the joined errors Check reports; the empty sequence is nil
Check(sch) ==
    IF sch.Current = <<>> THEN <<CheckError("no current schema", 0, NoDigest, NoDigest)>>
    ELSE IF ~SQLDigest(sch.Current).ok
         THEN <<CheckError("compile schema", 0, NoDigest, NoDigest)>>
    ELSE CheckRules(sch.Updates, 1, NoDigest, SQLDigest(sch.Current).digest)

\* the Schema values Apply is called on: every text with every list of rules
\* that Check accepts or that has one rule, and the two texts Check refuses
\* outright (Check on its own is given every list, below)
Schemas ==
    {sch \in [Current : Texts, Updates : Chains] :
        Len(sch.Updates) <= 1 \/ Check(sch) = <<>>}
    \cup [Current : {VEmpty, VBad}, Updates : {<<>>}]

\* firstPendingUpdate, had it taken the first rule with the digest as Source
firstPendingUpdateFirst(updates, digest) ==
    LET hits == {k \in 1..Len(updates) : updates[k].Source = digest}
    IN  IF hits = {} THEN -1
        ELSE (CHOOSE k \in hits : \A m \in hits : k <= m) - 1

\* firstPendingUpdate, had it looked at the last rule only
firstPendingUpdateLastOnly(updates, digest) ==
    IF Len(updates) > 0 /\ updates[Len(updates)].Source = digest
    THEN Len(updates) - 1 ELSE -1

\* firstPendingUpdate, had it returned 0 when no rule has the digest as Source
firstPendingUpdateOrZero(updates, digest) ==
    LET hits == {k \in 1..Len(updates) : updates[k].Source = digest}
    IN  IF hits = {} THEN 0
        ELSE (CHOOSE k \in hits : \A m \in hits : m <= k) - 1

\* the loop of firstPendingUpdate, from the 0-based index k down
RECURSIVE pendingFrom(_, _, _)
pendingFrom(updates, digest, k) ==
    IF k < 0 THEN -1
    ELSE IF updates[k + 1].Source = digest THEN k
    ELSE pendingFrom(updates, digest, k - 1)

\* for i := len(s.Updates) - 1; i >= 0; i--
firstPendingUpdate(updates, digest) == pendingFrom(updates, digest, Len(updates) - 1)

(***************************************************************************)
(* The history ledger (squibble.go).                                       *)
(***************************************************************************)
\* the frame header that starts a zstd blob
ZstdMagic == Stmt("zstd", "", <<>>, <<>>, FALSE)

\* a part of a blob that no zstd frame can hold
ZstdDamage == Stmt("damage", "", <<>>, <<>>, FALSE)

compress(text) == <<ZstdMagic>> \o text

\* whether DecodeAll accepts the blob
ValidFrame(blob) ==
    /\ Len(blob) > 0
    /\ blob[1] = ZstdMagic
    /\ \A k \in 1..Len(blob) : blob[k] # ZstdDamage

\* uncompress, had it given up on a blob that DecodeAll refuses
uncompressOrNothing(blob) ==
    IF Len(blob) = 0 THEN <<>>
    ELSE IF ValidFrame(blob) THEN Tail(blob)
    ELSE <<>>

uncompress(blob) ==
    IF Len(blob) = 0 THEN <<>>
    ELSE IF ValidFrame(blob) THEN Tail(blob)
    ELSE blob

\* the value NULL in the schema column, and what Scan makes of a column value
\* read into a []byte
Null == <<Stmt("NULL", "", <<>>, <<>>, FALSE)>>

ScanBytes(v) == IF v = Null THEN <<>> ELSE v

\* a time.Time: microseconds since the epoch and the nanoseconds beyond them
MaxNanos == 1

\* a time.Time as time.Now and time.UnixMicro return it: in the local zone
Time(us, ns) == [us |-> us, ns |-> ns, loc |-> "Local"]

Times == {Time(us, ns) : us \in 1..MaxTime, ns \in 0..MaxNanos}

UnixMicro(t) == t.us

\* Time.UTC, had it left the time in its zone
UTCNot(t) == t

\* Time.UTC
UTC(t) == [t EXCEPT !.loc = "UTC"]

\* time.UnixMicro(ts).UTC()
TimeOfUnixMicro(ts) == UTC(Time(ts, 0))

HistoryRow(timestamp, digest, schema) ==
    [Timestamp |-> timestamp, Digest |-> digest, Schema |-> schema]

\* queryHistoryRows, had it ordered the rows by descending timestamp
RECURSIVE queryHistoryRowsDesc(_)
queryHistoryRowsDesc(ledger) ==
    IF ledger = {} THEN <<>>
    ELSE LET r == CHOOSE x \in ledger : \A y \in ledger : x.timestamp >= y.timestamp
         IN  <<r>> \o queryHistoryRowsDesc(ledger \ {r})

\* SELECT timestamp, digest, schema FROM _schema_history ORDER BY timestamp
RECURSIVE queryHistoryRows(_)
queryHistoryRows(ledger) ==
    IF ledger = {} THEN <<>>
    ELSE LET r == CHOOSE x \in ledger : \A y \in ledger : x.timestamp <= y.timestamp
         IN  <<r>> \o queryHistoryRows(ledger \ {r})

\* the HistoryRows History makes of the rows it scanned
historyRows(rows) ==
    [k \in 1..Len(rows) |->
        HistoryRow(TimeOfUnixMicro(rows[k].timestamp), rows[k].digest,
                   uncompress(ScanBytes(rows[k].schema)))]

History(ledger) == historyRows(queryHistoryRows(ledger))

\* the faults that can befall History on a ledger: its query, the Scan of a
\* row, or the iteration (rows.Next false before the end, rows.Err not
\* consulted)
HistoryFaults(ledger) ==
    {NoFault, ReadFault("query", 0, 0)}
    \cup {ReadFault("scan", k, 0) : k \in 1..Cardinality(ledger)}
    \cup {ReadFault("next", k, 0) : k \in 0..(Cardinality(ledger) - 1)}

\* History with the fault f: whether err is nil, and the rows returned
HistoryWith(ledger, f) ==
    CASE f.kind \in {"query", "scan"} -> ReadResult(FALSE, <<>>)
      [] f.kind = "next" ->
            ReadResult(TRUE, historyRows(SubSeq(queryHistoryRows(ledger), 1, f.at)))
      [] OTHER -> ReadResult(TRUE, History(ledger))

\* Insert, had the statement been INSERT OR REPLACE of the one record kept
InsertReplacing(ledger, row) == {row}

\* INSERT INTO _schema_history: the rows of the table after the statement
Insert(ledger, row) == ledger \cup {row}

\* queryHistoryInsert, had it left the digest column empty
queryHistoryInsertNoDigest(version) ==
    [timestamp |-> UnixMicro(version.Timestamp), digest |-> NoDigest,
     schema |-> compress(version.Schema)]

\* the row addVersion inserts
queryHistoryInsert(version) ==
    [timestamp |-> UnixMicro(version.Timestamp), digest |-> version.Digest,
     schema |-> compress(version.Schema)]

(***************************************************************************)
(* Schema.Apply (squibble.go), one action per stage.  db is the live       *)
(* database; tx holds the working copy of the open transaction.            *)
(* A database call that fails returns its error here; a result set whose   *)
(* iteration is cut short without one is taken up where readSchema and     *)
(* History are called on their own.                                        *)
(***************************************************************************)
VARIABLES
    db,          \* the live database: [catalog, ledger]
    tx,          \* <<>> or <<the database as the open transaction sees it>>
    pc,          \* where Apply is: "idle", a stage, or "done"
    s,           \* the Schema value Apply was called on
    curHash,     \* Apply's locals
    latestHash,
    hr,
    i,
    j,
    ret,         \* what the last call returned
    pre,         \* the live database when the call began
    ran,         \* the rules run by the call, in order, each with its outcome
    ranCurrent,  \* whether the call executed s.Current
    repeat,      \* whether the call repeats a call that returned nil
    fault,       \* whether a database call of this call failed or was cancelled
    errs,        \* the errors Check joined, when it was last called
    diff,        \* the Diff of the ValidationError Validate last returned
    out,         \* the rows the catalog reader last returned
    written      \* <<>> or <<the HistoryRow the call handed to addVersion>>

vars ==
    <<db, tx, pc, s, curHash, latestHash, hr, i, j, ret, pre, ran, ranCurrent,
      repeat, fault, errs, diff, out, written>>

Database(catalog, ledger) == [catalog |-> catalog, ledger |-> ledger]

\* a returned error: its message and what it wraps ("io": a failed or
\* cancelled database call; "sql": a statement the engine refused)
\* at is the digest the message names, when it names one
ErrorAt(msg, cause, digest) == [err |-> msg, cause |-> cause, at |-> digest]
Error(msg, cause) == ErrorAt(msg, cause, NoDigest)
Nil == Error("nil", "")
NotReturned == Error("", "")

zeroSchema == [Current |-> <<>>, Updates |-> <<>>]

\* a read of the catalog: the result set as the engine returned it, and the
\* rows readSchema made of it
Read(from, rows) == [from |-> from, rows |-> rows]
NoRead == Read(<<>>, <<>>)

\* one run of a rule: the rule, whether its function returned nil, and the
\* digest read back to confirm it (NoDigest when none was read)
Ran(rule, ok, conf) == [rule |-> rule, ok |-> ok, conf |-> conf]

Init ==
    /\ db \in {Database(ExecText({}, script).cat, {}) : script \in InitScripts}
    /\ tx = <<>>
    /\ pc = "idle"
    /\ s = zeroSchema
    /\ curHash = NoDigest
    /\ latestHash = NoDigest
    /\ hr = <<>>
    /\ i = 0
    /\ j = 0
    /\ ret = NotReturned
    /\ pre = db
    /\ ran = <<>>
    /\ ranCurrent = FALSE
    /\ repeat = FALSE
    /\ fault = FALSE
    /\ errs = <<>>
    /\ diff = <<>>
    /\ out = NoRead
    /\ written = <<>>

\* Rollback, had it left the writes of the transaction in the database
RollbackKeepsWrites(live, t) == IF t = <<>> THEN live ELSE t[1]

\* defer tx.Rollback(): the live database after a transaction is abandoned
Rollback(live, t) == live

\* tx.Commit(): the live database after the transaction commits
Commit(live, t) == t[1]

\* the call returns e and the deferred Rollback runs; failed tells whether a
\* database call of the call has failed
Leave(e, failed) ==
    /\ ret' = e
    /\ pc' = "done"
    /\ db' = Rollback(db, tx)
    /\ tx' = <<>>
    /\ fault' = failed

Return(e) == Leave(e, fault)

\* a database call failed or the context was cancelled: return it, wrapped
ReturnIO(msg) == Leave(Error(msg, "io"), TRUE)

\* the call goes on to the next stage
Goto(stage) ==
    /\ pc' = stage
    /\ UNCHANGED <<db, ret, fault>>

\* CheckFailed, had Apply gone on whatever Check reported
CheckFailedNever(err) == FALSE

\* if err := s.Check(); err != nil
CheckFailed(err) == err # <<>>

\* the call begins: Check, before anything touches the database
Enter(sch, again) ==
    /\ s' = sch
    /\ pre' = db
    /\ ran' = <<>>
    /\ ranCurrent' = FALSE
    /\ repeat' = again
    /\ curHash' = NoDigest
    /\ latestHash' = NoDigest
    /\ hr' = <<>>
    /\ i' = 0
    /\ j' = 0
    /\ fault' = FALSE
    /\ tx' = <<>>
    /\ errs' = Check(sch)
    /\ written' = <<>>
    /\ UNCHANGED <<diff, out>>
    /\ IF CheckFailed(Check(sch))
       THEN /\ ret' = Error("check", "")
            /\ pc' = "done"
            /\ db' = db
       ELSE /\ ret' = NotReturned
            /\ pc' = "begin"
            /\ db' = db

ApplyCall(sch) ==
    /\ pc = "idle"
    /\ Enter(sch, FALSE)

\* the same Schema applied again, right after a call that returned nil
ApplyAgain ==
    /\ pc = "done"
    /\ ret = Nil
    /\ Enter(s, TRUE)

\* the program ends; another run may use another Schema
Restart ==
    /\ pc = "done"
    /\ pc' = "idle"
    /\ s' = zeroSchema
    /\ ret' = NotReturned
    /\ pre' = db
    /\ ran' = <<>>
    /\ ranCurrent' = FALSE
    /\ repeat' = FALSE
    /\ fault' = FALSE
    /\ curHash' = NoDigest
    /\ latestHash' = NoDigest
    /\ hr' = <<>>
    /\ i' = 0
    /\ j' = 0
    /\ errs' = <<>>
    /\ written' = <<>>
    /\ UNCHANGED <<db, tx, diff, out>>

locals == <<curHash, latestHash, hr, i, j>>
history == <<s, pre, ran, ranCurrent, repeat, errs, diff, out, written>>

BeginTx ==
    /\ pc = "begin"
    /\ \/ /\ tx' = <<db>>
          /\ Goto("stage1")
       \/ ReturnIO("begin")
    /\ UNCHANGED <<locals, history>>

\* Stage 1: CREATE TABLE IF NOT EXISTS _schema_history
CreateHistoryTable ==
    /\ pc = "stage1"
    /\ \/ /\ tx' = << [tx[1] EXCEPT !.catalog =
                          IF NameTaken(@, historyTableName) THEN @
                          ELSE @ \cup historyTableRows] >>
          /\ Goto("stage2")
       \/ ReturnIO("create schema history")
    /\ UNCHANGED <<locals, history>>

\* Stage 2: the digest of s.Current and of the database
ComputeDigests ==
    /\ pc = "stage2"
    /\ \/ /\ ReturnIO("digest")
          /\ UNCHANGED <<curHash, latestHash>>
       \/ /\ curHash' = SQLDigest(s.Current).digest
          /\ latestHash' = DBDigest(tx[1].catalog)
          /\ Goto("stage3")
          /\ UNCHANGED tx
    /\ UNCHANGED <<hr, i, j, history>>

\* Case, had it taken any database with a history for up-to-date
CaseStale(rows, latest, cur) == IF Len(rows) = 0 THEN "case1" ELSE "case2"

\* Case, had it never taken a database for up-to-date
CaseNoShortcut(rows, latest, cur) == IF Len(rows) = 0 THEN "case1" ELSE "case3"

\* which of the three cases the history and the two digests select
Case(rows, latest, cur) ==
    IF Len(rows) = 0 THEN "case1"
    ELSE IF latest = cur THEN "case2"
    ELSE "case3"

ReadHistory ==
    /\ pc = "stage3"
    /\ \/ /\ hr' = History(tx[1].ledger)
          /\ Goto(Case(hr', latestHash, curHash))
          /\ UNCHANGED tx
       \/ /\ ReturnIO("reading update history")
          /\ UNCHANGED hr
    /\ UNCHANGED <<curHash, latestHash, i, j, history>>

\* NeedsInit, had it never, or always, asked for s.Current to be executed
NeedsInitNever(latest, cur) == FALSE
NeedsInitAlways(latest, cur) == TRUE

\* Case 1 executes s.Current only when the database is not already at it
NeedsInit(latest, cur) == latest # cur

\* Case 1: there is no schema in the history table
InitSchema ==
    /\ pc = "case1"
    /\ IF NeedsInit(latestHash, curHash)
       THEN \/ /\ ~schemaIsEmpty(tx[1].catalog)
               /\ Return(Error("unmanaged schema", ""))
               /\ UNCHANGED ranCurrent
            \/ \* schemaIsEmpty could not read the schema, and reports false
               /\ Leave(Error("unmanaged schema", ""), TRUE)
               /\ UNCHANGED ranCurrent
            \/ /\ schemaIsEmpty(tx[1].catalog)
               /\ ranCurrent' = TRUE
               /\ LET r == ExecText(tx[1].catalog, s.Current)
                  IN  \/ /\ r.ok
                         /\ tx' = <<[tx[1] EXCEPT !.catalog = r.cat]>>
                         /\ Goto("record")
                      \/ /\ ~r.ok
                         /\ Return(Error("apply schema", "sql"))
                      \/ ReturnIO("apply schema")
       ELSE /\ Goto("record")
            /\ UNCHANGED <<tx, ranCurrent>>
    /\ UNCHANGED <<locals, s, pre, ran, repeat, errs, diff, out, written>>

\* Case 2: the current schema is up-to-date
UpToDate ==
    /\ pc = "case2"
    /\ Return(Nil)
    /\ UNCHANGED <<locals, history>>

\* Case 3: find the rules to apply
FindPending ==
    /\ pc = "case3"
    /\ i' = firstPendingUpdate(s.Updates, latestHash)
    /\ IF i' < 0
       THEN Return(ErrorAt("no update found", "", latestHash))
       ELSE /\ Goto("loop")
            /\ UNCHANGED tx
    /\ UNCHANGED <<curHash, latestHash, hr, j, history>>

\* PendingUpdate, had the loop ranged over s.Updates and not s.Updates[i:]
PendingUpdateFromStart(updates, first, turn) == updates[turn + 1]

\* the rule a turn of the loop over s.Updates[i:] runs
PendingUpdate(updates, first, turn) == updates[first + turn + 1]

\* Confirmed, had the digest read back not been compared
ConfirmedAnything(conf, target) == TRUE

\* conf == update.Target
Confirmed(conf, target) == conf = target

\* UpdateError, had the message named the digest the rule leads to
UpdateErrorAtTarget(update, cause) == ErrorAt("update failed", cause, update.Target)

\* fmt.Errorf("update failed at digest %s: %w", update.Source, err)
UpdateError(update, cause) == ErrorAt("update failed", cause, update.Source)

\* one turn of the loop: the rule's function, then the confirmation of its
\* target
\* NextTurn, had the loop run the same rule again
NextTurnSame(turn) == turn

\* for j, update := range s.Updates[i:]: the index after a turn of the loop
NextTurn(turn) == turn + 1

ApplyUpdate ==
    /\ pc = "loop"
    /\ LET update == PendingUpdate(s.Updates, i, j)
           r == RunApply(update.Apply, tx[1].catalog, 0)
       IN  \/ /\ Leave(UpdateError(update, "io"), TRUE)
              /\ ran' = Append(ran, Ran(update, FALSE, NoDigest))
              /\ UNCHANGED j
           \/ /\ ~r.ok
              /\ Return(UpdateError(update, "sql"))
              /\ ran' = Append(ran, Ran(update, FALSE, NoDigest))
              /\ UNCHANGED j
           \/ /\ r.ok
              /\ ReturnIO("confirming update")
              /\ ran' = Append(ran, Ran(update, TRUE, NoDigest))
              /\ UNCHANGED j
           \/ /\ r.ok
              /\ ran' = Append(ran, Ran(update, TRUE, DBDigest(r.cat)))
              /\ IF Confirmed(DBDigest(r.cat), update.Target)
                 THEN /\ tx' = <<[tx[1] EXCEPT !.catalog = r.cat]>>
                      /\ j' = NextTurn(j)
                      /\ Goto(IF i + j + 1 = Len(s.Updates) THEN "record" ELSE "loop")
                 ELSE /\ Return(Error("confirming update", ""))
                      /\ UNCHANGED j
    /\ UNCHANGED <<curHash, latestHash, hr, i, s, pre, ranCurrent, repeat, errs, diff, out, written>>

\* timestamp INTEGER UNIQUE NOT NULL, had the column not been declared UNIQUE
CollidesNever(ledger, row) == FALSE

\* timestamp INTEGER UNIQUE NOT NULL: the insert of the row fails
Collides(ledger, row) == \E old \in ledger : old.timestamp = row.timestamp

\* addVersion: the record of the current schema, stamped time.Now()
AddVersion ==
    /\ pc = "record"
    /\ \E now \in Times :
          LET version == HistoryRow(now, curHash, s.Current)
              row == queryHistoryInsert(version)
          IN  /\ written' = <<version>>
              /\ \/ /\ ~Collides(tx[1].ledger, row)
                    /\ tx' = <<[tx[1] EXCEPT !.ledger = Insert(@, row)]>>
                    /\ Goto("commit")
                 \/ /\ Collides(tx[1].ledger, row)
                    /\ Return(Error("record schema", "sql"))
                 \/ ReturnIO("record schema")
    /\ UNCHANGED <<locals, s, pre, ran, ranCurrent, repeat, errs, diff, out>>

CommitTx ==
    /\ pc = "commit"
    /\ \/ /\ db' = Commit(db, tx)
          /\ tx' = <<>>
          /\ ret' = Nil
          /\ pc' = "done"
          /\ UNCHANGED fault
       \/ ReturnIO(IF Len(hr) = 0 THEN "commit" ELSE "upgrades failed")
    /\ UNCHANGED <<locals, history>>

Next ==
    \/ \E sch \in Schemas : ApplyCall(sch)
    \/ ApplyAgain
    \/ Restart
    \/ BeginTx
    \/ CreateHistoryTable
    \/ ComputeDigests
    \/ ReadHistory
    \/ InitSchema
    \/ UpToDate
    \/ FindPending
    \/ ApplyUpdate
    \/ AddVersion
    \/ CommitTx

Spec == Init /\ [][Next]_vars

\* a step of a call of Apply that has not returned
ApplyStep ==
    \/ BeginTx
    \/ CreateHistoryTable
    \/ ComputeDigests
    \/ ReadHistory
    \/ InitSchema
    \/ UpToDate
    \/ FindPending
    \/ ApplyUpdate
    \/ AddVersion
    \/ CommitTx

\* the calls of Spec, every database call and every rule function returning:
\* Apply is straight-line code of one goroutine, so a call that has not
\* returned takes its next step
SpecTerminates == Init /\ [][Next]_vars /\ WF_vars(ApplyStep)

(***************************************************************************)
(* Apply on longer lists of rules: lists in which a digest comes back (the *)
(* cycle of TestMultiUpgrade), with rules that do not do what they declare.*)
(***************************************************************************)
MaxChain == 3

\* a rule declared to lead from v2 back to v1 whose function does nothing
R21noop == UpdateRule(d2, d1, NoAction)
\* a rule whose function fails at its second statement
R23fail == UpdateRule(d2, d3, Exec(<<CreateBar, Bogus>>))

ChainRules == {R12, R21, R21noop, R23fail}

\* the consistent Schemas over these rules
ChainSchemas ==
    {sch \in [Current : {V1, V2, V3},
              Updates : UNION {[1..n -> ChainRules] : n \in 0..MaxChain}] :
        Check(sch) = <<>>}

InitChains ==
    /\ Init
    /\ db = Database({}, {})

NextChains ==
    \/ \E sch \in ChainSchemas : ApplyCall(sch)
    \/ ApplyAgain
    \/ Restart
    \/ BeginTx
    \/ CreateHistoryTable
    \/ ComputeDigests
    \/ ReadHistory
    \/ InitSchema
    \/ UpToDate
    \/ FindPending
    \/ ApplyUpdate
    \/ AddVersion
    \/ CommitTx

SpecChains == InitChains /\ [][NextChains]_vars

\* the loop over s.Updates[first:] from its given turn on, as a function of the
\* catalog: whether every rule ran and was confirmed, and the catalog then
RECURSIVE RunUpdates(_, _, _, _)
RunUpdates(cat, updates, first, turn) ==
    IF first + turn >= Len(updates) THEN Done(cat)
    ELSE LET update == PendingUpdate(updates, first, turn)
             r == ExecText(cat, update.Apply.stmts)
         IN  IF ~r.ok THEN Failed(cat)
             ELSE IF ~Confirmed(DBDigest(r.cat), update.Target) THEN Failed(cat)
             ELSE RunUpdates(r.cat, updates, first, turn + 1)

(***************************************************************************)
(* Schema.Check called on its own, on Schemas whose rules may lack a       *)
(* Source, a Target or a function and need not chain.                      *)
(***************************************************************************)
MaxRules == 2

CheckTexts == {VEmpty, VBad, V1, V2, VComment}

CheckRuleSet ==
    {UpdateRule(src, tgt, NoAction) : src \in {NoDigest, d1, d2}, tgt \in {NoDigest, d1, d2}}
    \cup {UpdateRule(d1, d2, NilApply), UpdateRule(NoDigest, NoDigest, NilApply)}

CheckSchemas ==
    [Current : CheckTexts, Updates : UNION {[1..n -> CheckRuleSet] : n \in 0..MaxRules}]

CheckCall(sch) ==
    /\ pc = "idle"
    /\ pc' = "checked"
    /\ s' = sch
    /\ errs' = Check(sch)
    /\ ret' = IF errs' = <<>> THEN Nil ELSE Error("check", "")
    /\ UNCHANGED <<db, tx, locals, pre, ran, ranCurrent, repeat, fault, diff, out, written>>

CheckReturn ==
    /\ pc = "checked"
    /\ pc' = "idle"
    /\ s' = zeroSchema
    /\ errs' = <<>>
    /\ ret' = NotReturned
    /\ UNCHANGED <<db, tx, locals, pre, ran, ranCurrent, repeat, fault, diff, out, written>>

InitCheck ==
    /\ Init
    /\ db = Database({}, {})

NextCheck ==
    \/ \E sch \in CheckSchemas : CheckCall(sch)
    \/ CheckReturn

SpecCheck == InitCheck /\ [][NextCheck]_vars

(***************************************************************************)
(* diffSchema (textcrime.go): the headings of the summary, in its order,   *)
(* and under the heading of an added object the lines of its definition;   *)
(* the lines under the heading of a modified object are left out.          *)
(***************************************************************************)
mapKey(r) == <<r.Type, r.Name>>

HasKey(rows, key) == \E k \in 1..Len(rows) : mapKey(rows[k]) = key

\* rhs[key]: of the rows with the key, the one put into the map last
Lookup(rows, key) ==
    rows[CHOOSE k \in 1..Len(rows) :
            /\ mapKey(rows[k]) = key
            /\ \A m \in 1..Len(rows) : mapKey(rows[m]) = key => m <= k]

DiffEntry(op, r) == [op |-> op, Type |-> r.Type, Name |-> r.Name]

\* DiffLeft, had it compared the keys of the rows only
DiffLeftKeysOnly(r, br) ==
    IF ~HasKey(br, mapKey(r)) THEN <<DiffEntry("Remove", r)>> ELSE <<>>

\* DiffLeft, had it compared the SQL of objects without columns as written
DiffLeftRawSQL(r, br) ==
    IF ~HasKey(br, mapKey(r)) THEN <<DiffEntry("Remove", r)>>
    ELSE LET o == Lookup(br, mapKey(r))
         IN  IF Len(r.Columns) = 0 /\ Len(o.Columns) = 0
             THEN IF r.SQL = o.SQL THEN <<>> ELSE <<DiffEntry("Modify", r)>>
             ELSE IF r.Columns = o.Columns THEN <<>>
                  ELSE <<DiffEntry("Modify", r)>>

\* the heading diffSchema writes for a row of ar, if it writes one
DiffLeft(r, br) ==
    IF ~HasKey(br, mapKey(r)) THEN <<DiffEntry("Remove", r)>>
    ELSE LET o == Lookup(br, mapKey(r))
         IN  IF Len(r.Columns) = 0 /\ Len(o.Columns) = 0
             THEN IF cleanSQL(r.SQL) = cleanSQL(o.SQL) THEN <<>>
                  ELSE IF cleanLines(r.SQL) # cleanLines(o.SQL)
                       THEN <<DiffEntry("Modify", r)>>
                  ELSE <<>>
             ELSE IF r.Columns = o.Columns THEN <<>>
                  ELSE <<DiffEntry("Modify", r)>>

RECURSIVE DiffLefts(_, _)
DiffLefts(ar, br) ==
    IF ar = <<>> THEN <<>> ELSE DiffLeft(Head(ar), br) \o DiffLefts(Tail(ar), br)

\* indentLines: a line of the definition of an added object, under its heading
DiffLine(r, line) ==
    [op |-> "+", Type |-> r.Type, Name |-> r.Name, line |-> line]

indentLines(r, text) ==
    [k \in 1..Len(Lines(text)) |-> DiffLine(r, Lines(text)[k])]

\* DiffRight, had it written the heading without the definition
DiffRightBare(ar, r) ==
    IF HasKey(ar, mapKey(r)) THEN <<>> ELSE <<DiffEntry("Add", r)>>

\* what diffSchema writes for a row of br: nothing if ar has its key, else the
\* heading and, if the row has SQL, the lines of the SQL
DiffRight(ar, r) ==
    IF HasKey(ar, mapKey(r)) THEN <<>>
    ELSE <<DiffEntry("Add", r)>>
         \o (IF r.SQL # <<>> THEN indentLines(r, r.SQL) ELSE <<>>)

RECURSIVE DiffRights(_, _)
DiffRights(ar, br) ==
    IF br = <<>> THEN <<>>
    ELSE DiffRight(ar, Head(br)) \o DiffRights(ar, Tail(br))

\* diffSchema, had it written the additions first
diffSchemaAddsFirst(ar, br) == DiffRights(ar, br) \o DiffLefts(ar, br)

diffSchema(ar, br) == DiffLefts(ar, br) \o DiffRights(ar, br)

(***************************************************************************)
(* Validate (validate.go).                                                 *)
(***************************************************************************)
\* Validate: the error it returns and, for a ValidationError, its Diff
ValidateResult(err, d) == [err |-> err, diff |-> d]

Validate(cat, text) ==
    LET comp == schemaTextToRows(text)
    IN  IF ~comp.ok THEN ValidateResult(Error("compile schema", "sql"), <<>>)
        ELSE LET d == diffSchema(readSchema(cat), comp.rows)
             IN  IF d # <<>> THEN ValidateResult(Error("invalid schema", ""), d)
                 ELSE ValidateResult(Error("nil", ""), <<>>)

(***************************************************************************)
(* Validate called on a database and a text, each made of some statements  *)
(* for a table foo, a table bar and a view v; the database may have the    *)
(* ledger table.                                                           *)
(***************************************************************************)
FooParts ==
    {<<>>, <<CreateFooX>>, <<CreateFooXY>>, <<CreateFooYX>>, <<CreateFooX, AddY>>}
BarParts == {<<>>, <<CreateBar>>}
ViewParts == {<<>>, <<CreateViewV>>, <<CreateViewVIndented>>, <<CreateViewVOther>>}

ValidateTexts ==
    {f \o b \o v : f \in FooParts, b \in BarParts, v \in ViewParts} \cup {VBad}

ValidateDatabases ==
    {Database(ExecText(managed, text).cat, {}) :
        managed \in {{}, historyTableRows}, text \in ValidateTexts \ {VBad}}

\* OpenMemory, had the text been compiled in the database Validate is given
OpenMemoryShared(live) == live

\* sql.Open("sqlite", "file::memory:") and vdb.BeginTx: a transaction on a
\* new in-memory database, which no other connection sees
OpenMemory(live) == Database({}, {})

\* the deferred tx.Rollback() and vdb.Close(): nothing of the instance is left
CloseMemory(t) == <<>>

\* Validate begins: schemaTextToRows opens its database and its transaction
ValidateCall(text) ==
    /\ pc = "idle"
    /\ s' = [Current |-> text, Updates |-> <<>>]
    /\ pre' = db
    /\ \/ /\ tx' = <<OpenMemory(db)>>
          /\ pc' = "compile"
          /\ UNCHANGED <<ret, fault>>
       \/ \* sql.Open or BeginTx failed
          /\ tx' = <<>>
          /\ pc' = "validated"
          /\ ret' = Error("create validation db", "io")
          /\ fault' = TRUE
    /\ UNCHANGED <<db, locals, ran, ranCurrent, repeat, errs, diff, out, written>>

\* schemaTextToRows executes the text and reads the schema it made; whatever
\* the outcome, the transaction is rolled back and the database closed
CompileSchema ==
    /\ pc = "compile"
    /\ tx' = CloseMemory(tx)
    /\ LET r == ExecText(tx[1].catalog, s.Current)
       IN  \/ /\ ~r.ok
              /\ ret' = Error("compile schema", "sql")
              /\ pc' = "validated"
              /\ UNCHANGED <<out, fault>>
           \/ /\ r.ok
              /\ out' = Read(QueryRows(r.cat), readSchema(r.cat))
              /\ pc' = "live"
              /\ UNCHANGED <<ret, fault>>
           \/ \* ExecContext or readSchema failed
              /\ ret' = Error("compile schema", "io")
              /\ pc' = "validated"
              /\ fault' = TRUE
              /\ UNCHANGED out
    /\ UNCHANGED <<db, s, locals, pre, ran, ranCurrent, repeat, errs, diff, written>>

\* Validate reads the schema of the database it was given and compares
ReadLive ==
    /\ pc = "live"
    /\ pc' = "validated"
    /\ \/ LET d == diffSchema(readSchema(db.catalog), out.rows)
          IN  /\ ret' = IF d # <<>> THEN Error("invalid schema", "") ELSE Nil
              /\ diff' = d
              /\ UNCHANGED fault
       \/ \* a query of the schema failed
          /\ ret' = Error("read schema", "io")
          /\ diff' = <<>>
          /\ fault' = TRUE
    /\ UNCHANGED <<db, tx, s, locals, pre, ran, ranCurrent, repeat, errs, out, written>>

ValidateReturn ==
    /\ pc = "validated"
    /\ pc' = "idle"
    /\ s' = zeroSchema
    /\ ret' = NotReturned
    /\ diff' = <<>>
    /\ fault' = FALSE
    /\ out' = NoRead
    /\ UNCHANGED <<db, tx, locals, pre, ran, ranCurrent, repeat, errs, written>>

InitValidate ==
    /\ db \in ValidateDatabases
    /\ tx = <<>>
    /\ pc = "idle"
    /\ s = zeroSchema
    /\ curHash = NoDigest
    /\ latestHash = NoDigest
    /\ hr = <<>>
    /\ i = 0
    /\ j = 0
    /\ ret = NotReturned
    /\ pre = db
    /\ ran = <<>>
    /\ ranCurrent = FALSE
    /\ repeat = FALSE
    /\ fault = FALSE
    /\ errs = <<>>
    /\ diff = <<>>
    /\ out = NoRead
    /\ written = <<>>

NextValidate ==
    \/ \E text \in ValidateTexts : ValidateCall(text)
    \/ CompileSchema
    \/ ReadLive
    \/ ValidateReturn

SpecValidate == InitValidate /\ [][NextValidate]_vars

(***************************************************************************)
(* DBDigest and SQLDigest called on their own: DBDigest on a database      *)
(* whose catalog the engine returns in some order, with a fault or none in *)
(* the reading, then SQLDigest on a text.  The table foo has one column,   *)
(* in the variants a column descriptor distinguishes, or two.              *)
(***************************************************************************)
ColVariants ==
    { colX,
      RawCol("x", "TEXT", FALSE, NoDefault, FALSE, 0),
      RawCol("w", "text", FALSE, NoDefault, FALSE, 0),
      RawCol("x", "integer", FALSE, NoDefault, FALSE, 0),
      RawCol("x", "text", TRUE, NoDefault, FALSE, 0),
      RawCol("x", "text", FALSE, <<"0">>, FALSE, 0),
      RawCol("x", "text", FALSE, NoDefault, TRUE, 0),
      RawCol("x", "text", FALSE, NoDefault, FALSE, 2) }

\* CREATE TABLE foo with the one column col; the text names the column
CreateFooWith(col) ==
    Stmt("create_table", "foo", <<col>>,
         << "CREATE TABLE foo", col.name, col.ctype,
            IF col.notNull THEN "not null" ELSE "null",
            IF col.dflt # NoDefault THEN "default 0" ELSE "no default",
            IF col.pk THEN "primary key" ELSE "no key",
            IF col.hidden # 0 THEN "generated" ELSE "stored" >>, FALSE)

DigestTexts ==
    {<<CreateFooWith(col)>> : col \in ColVariants}
    \cup { <<>>, V1, V2, <<CreateFooX, AddY>>, V3, <<CreateBar, CreateFooX, AddY>>,
           <<CreateFooX, CreateViewV>>, <<CreateFooX, CreateViewVIndented>>,
           <<CreateFooX, CreateViewVOther>>, <<CreateBar, CreateFooX, CreateViewV>> }

\* the databases: one per text, and two that have the ledger table as well
DigestDatabases ==
    {Database(ExecText({}, text).cat, {}) : text \in DigestTexts}
    \cup {Database(ExecText(historyTableRows, text).cat, {}) : text \in {V1, V3}}

\* the orders in which the engine may return the rows of a catalog
Orders(cat) ==
    {order \in [1..Cardinality(cat) -> cat] :
        \A m, n \in 1..Cardinality(cat) : order[m] = order[n] => m = n}

\* DBDigest(ctx, db): readSchema, then schemaDigest
DBDigestCall(order, f) ==
    /\ pc = "idle"
    /\ pc' = "read"
    /\ LET r == readSchemaWith(order, f)
       IN  /\ out' = Read(order, r.rows)
           /\ latestHash' = IF r.ok THEN schemaDigest(r.rows) ELSE NoDigest
           /\ ret' = IF r.ok THEN Nil ELSE Error("read schema", "io")
    /\ fault' = (f # NoFault)
    /\ UNCHANGED <<db, tx, s, curHash, hr, i, j, pre, ran, ranCurrent, repeat, errs, diff,
                   written>>

\* SQLDigest(text), after a DBDigest
SQLDigestCall(text) ==
    /\ pc = "read"
    /\ pc' = "compared"
    /\ s' = [Current |-> text, Updates |-> <<>>]
    /\ curHash' = SQLDigest(text).digest
    /\ UNCHANGED <<db, tx, latestHash, hr, i, j, ret, pre, ran, ranCurrent, repeat,
                   fault, errs, diff, out, written>>

ReadReturn ==
    /\ pc \in {"read", "compared"}
    /\ pc' = "idle"
    /\ s' = zeroSchema
    /\ curHash' = NoDigest
    /\ latestHash' = NoDigest
    /\ ret' = NotReturned
    /\ fault' = FALSE
    /\ out' = NoRead
    /\ UNCHANGED <<db, tx, hr, i, j, pre, ran, ranCurrent, repeat, errs, diff, written>>

InitRead ==
    /\ db \in DigestDatabases
    /\ tx = <<>>
    /\ pc = "idle"
    /\ s = zeroSchema
    /\ curHash = NoDigest
    /\ latestHash = NoDigest
    /\ hr = <<>>
    /\ i = 0
    /\ j = 0
    /\ ret = NotReturned
    /\ pre = db
    /\ ran = <<>>
    /\ ranCurrent = FALSE
    /\ repeat = FALSE
    /\ fault = FALSE
    /\ errs = <<>>
    /\ diff = <<>>
    /\ out = NoRead
    /\ written = <<>>

NextRead ==
    \/ \E order \in Orders(db.catalog) : \E f \in ReadFaults(order) : DBDigestCall(order, f)
    \/ \E text \in DigestTexts : SQLDigestCall(text)
    \/ ReadReturn

SpecRead == InitRead /\ [][NextRead]_vars

(***************************************************************************)
(* An apply function called on its own, on an open transaction: the        *)
(* functions Exec makes of up to MaxStmts statements, and NoAction.        *)
(***************************************************************************)
MaxStmts == 3

ExecStmts == {CreateFooX, AddY, CreateBar, DropFoo, Bogus}

ExecFns ==
    {Exec(stmts) : stmts \in UNION {[1..n -> ExecStmts] : n \in 1..MaxStmts}}
    \cup {NoAction}

\* fmt.Errorf("stmt %d: %w", i+1, err)
StmtError(k, cause) == [err |-> "stmt", cause |-> cause, at |-> NoDigest, stmt |-> k]

ExecCall(fn, io) ==
    /\ pc = "idle"
    /\ pc' = "executed"
    /\ LET r == RunApply(fn, db.catalog, io)
       IN  /\ tx' = <<[db EXCEPT !.catalog = r.cat]>>
           /\ ret' = IF r.ok THEN Nil ELSE StmtError(r.at, r.cause)
           /\ ran' = <<Ran(UpdateRule(NoDigest, NoDigest, fn), r.ok, NoDigest)>>
    /\ fault' = (io # 0)
    /\ UNCHANGED <<db, s, locals, pre, ranCurrent, repeat, errs, diff, out, written>>

\* the transaction is rolled back
ExecReturn ==
    /\ pc = "executed"
    /\ pc' = "idle"
    /\ tx' = <<>>
    /\ ret' = NotReturned
    /\ ran' = <<>>
    /\ fault' = FALSE
    /\ UNCHANGED <<db, s, locals, pre, ranCurrent, repeat, errs, diff, out, written>>

InitExec ==
    /\ db \in {Database(ExecText({}, text).cat, {}) : text \in {<<>>, V1, V2}}
    /\ tx = <<>>
    /\ pc = "idle"
    /\ s = zeroSchema
    /\ curHash = NoDigest
    /\ latestHash = NoDigest
    /\ hr = <<>>
    /\ i = 0
    /\ j = 0
    /\ ret = NotReturned
    /\ pre = db
    /\ ran = <<>>
    /\ ranCurrent = FALSE
    /\ repeat = FALSE
    /\ fault = FALSE
    /\ errs = <<>>
    /\ diff = <<>>
    /\ out = NoRead
    /\ written = <<>>

NextExec ==
    \/ \E fn \in ExecFns : \E io \in 0..Len(fn.stmts) : ExecCall(fn, io)
    \/ ExecReturn

SpecExec == InitExec /\ [][NextExec]_vars

(***************************************************************************)
(* History called on its own, on a ledger whose records need not have been *)
(* written by Apply: the schema column may be NULL, empty, a text stored   *)
(* as it is, or a damaged blob.                                            *)
(***************************************************************************)
Blobs ==
    {Null, <<>>, compress(V1), compress(VEmpty), V1, <<ZstdMagic, ZstdDamage>>,
     <<ZstdMagic, CreateFooX, ZstdDamage>>}

\* the ledgers: at most one record for a timestamp, which is UNIQUE
Ledgers ==
    {ledger \in SUBSET [timestamp : 1..MaxTime, digest : {d1}, schema : Blobs] :
        \A x, y \in ledger : x.timestamp = y.timestamp => x = y}

HistoryCall(f) ==
    /\ pc = "idle"
    /\ pc' = "history"
    /\ LET r == HistoryWith(db.ledger, f)
       IN  /\ hr' = r.rows
           /\ ret' = IF r.ok THEN Nil
                     ELSE Error(IF f.kind = "scan" THEN "scan history" ELSE "query", "io")
    /\ fault' = (f # NoFault)
    /\ UNCHANGED <<db, tx, s, curHash, latestHash, i, j, pre, ran, ranCurrent, repeat,
                   errs, diff, out, written>>

HistoryReturn ==
    /\ pc = "history"
    /\ pc' = "idle"
    /\ hr' = <<>>
    /\ ret' = NotReturned
    /\ fault' = FALSE
    /\ UNCHANGED <<db, tx, s, curHash, latestHash, i, j, pre, ran, ranCurrent, repeat,
                   errs, diff, out, written>>

InitHistory ==
    /\ db \in {Database(historyTableRows, ledger) : ledger \in Ledgers}
    /\ tx = <<>>
    /\ pc = "idle"
    /\ s = zeroSchema
    /\ curHash = NoDigest
    /\ latestHash = NoDigest
    /\ hr = <<>>
    /\ i = 0
    /\ j = 0
    /\ ret = NotReturned
    /\ pre = db
    /\ ran = <<>>
    /\ ranCurrent = FALSE
    /\ repeat = FALSE
    /\ fault = FALSE
    /\ errs = <<>>
    /\ diff = <<>>
    /\ out = NoRead
    /\ written = <<>>

NextHistory ==
    \/ \E f \in HistoryFaults(db.ledger) : HistoryCall(f)
    \/ HistoryReturn

SpecHistory == InitHistory /\ [][NextHistory]_vars

(***************************************************************************)
(* Properties of Apply.                                                    *)
(***************************************************************************)
Returned == pc = "done"
Succeeded == pc = "done" /\ ret = Nil
Consistent == Check(s) = <<>>
CurrentDigest == SQLDigest(s.Current).digest
LiveDigestBefore == DBDigest(pre.catalog)

\* the record of a ledger with the greatest timestamp
LatestRecord(ledger) == CHOOSE r \in ledger : \A o \in ledger : o.timestamp <= r.timestamp

\* the ledger holds one record, and it is for the digest of s.Current
OneRecordOfCurrent(ledger) ==
    /\ Cardinality(ledger) = 1
    /\ \A r \in ledger : r.digest = CurrentDigest

\* C1: whenever Apply returns an error, whatever the step that failed, the
\* live database (schema, ledger table, ledger records) is what it was when
\* the call began.
C1_AllOrNothing == (Returned /\ ret # Nil) => db = pre

\* a commit that failed after rules had run and the record had been inserted
C1_Witness == Returned /\ ret.err = "upgrades failed" /\ ran # <<>> /\ db = pre

C3_ConfirmationFailure ==
    \A k \in 1..Len(ran) :
        (ran[k].ok /\ ran[k].conf # NoDigest /\ ran[k].conf # ran[k].rule.Target)
        => /\ k = Len(ran)
           /\ Returned
           /\ ret = Error("confirming update", "")
           /\ db = pre
           /\ DBDigest(db.catalog) = LiveDigestBefore

\* a rule ran without error and produced another digest than its Target
C3_Witness ==
    /\ Returned
    /\ ret = Error("confirming update", "")
    /\ ran # <<>>
    /\ ran[Len(ran)].conf # ran[Len(ran)].rule.Target

\* C4: the rules run are Updates[i], Updates[i+1], ... in that order, i being
\* the index matched for the digest of the database; none is run after one
\* that failed or was not confirmed; a successful upgrade runs them all up to
\* the last; and they run inside the transaction, the live database untouched.
C4_RuleOrder ==
    /\ \A k \in 1..Len(ran) :
          /\ i >= 0
          /\ i + k <= Len(s.Updates)
          /\ ran[k].rule = s.Updates[i + k]
    /\ \A k \in 1..(Len(ran) - 1) : ran[k].ok /\ ran[k].conf = ran[k].rule.Target
    /\ ran # <<>> => s.Updates[i + 1].Source = LiveDigestBefore
    /\ (ran # <<>> /\ ~Returned) => (tx # <<>> /\ db = pre)
    /\ (Succeeded /\ pre.ledger # {} /\ LiveDigestBefore # CurrentDigest)
       => (ran # <<>> /\ Len(ran) = Len(s.Updates) - i)

\* an upgrade that starts at the second rule of the list
C4_Witness == Succeeded /\ i = 1 /\ Len(ran) = 1 /\ Len(s.Updates) = 2

\* C5, as stated: on a database with no object and no record, Apply with a
\* consistent Schema executes s.Current, returns nil, leaves the structure of
\* s.Current and a ledger of one record, for the digest of s.Current.
C5_AsStated ==
    (Returned /\ Consistent /\ ~fault /\ pre.ledger = {}
       /\ pre.catalog \subseteq historyTableRows)
    => /\ ranCurrent
       /\ ret = Nil
       /\ readSchema(db.catalog) = schemaTextToRows(s.Current).rows
       /\ OneRecordOfCurrent(db.ledger)

\* C5, amended: the same, but s.Current is executed only when its digest is
\* not already the digest of the database, that is unless it defines no
\* object.
C5_Bootstrap ==
    (Returned /\ Consistent /\ ~fault /\ pre.ledger = {}
       /\ pre.catalog \subseteq historyTableRows)
    => /\ ranCurrent <=> (LiveDigestBefore # CurrentDigest)
       /\ ret = Nil
       /\ readSchema(db.catalog) = schemaTextToRows(s.Current).rows
       /\ OneRecordOfCurrent(db.ledger)

\* a new database initialised with a schema of two tables
C5_Witness ==
    /\ Succeeded
    /\ pre = Database({}, {})
    /\ ranCurrent
    /\ Len(readSchema(db.catalog)) = 2

C7_AsStated ==
    (Returned /\ Consistent /\ ~fault /\ pre.ledger = {}
       /\ LiveDigestBefore # CurrentDigest
       /\ \E r \in pre.catalog : r.tbl_name # historyTableName)
    => /\ ret = Error("unmanaged schema", "")
       /\ ~ranCurrent
       /\ db = pre

\* C7, amended: the same, for an object the catalog reader reports (one that
\* belongs neither to the ledger table nor to sqlite_sequence and is no
\* generated index).
C7_Unmanaged ==
    (Returned /\ Consistent /\ ~fault /\ pre.ledger = {}
       /\ LiveDigestBefore # CurrentDigest
       /\ \E r \in pre.catalog : ~Skipped(r))
    => /\ ret = Error("unmanaged schema", "")
       /\ ~ranCurrent
       /\ db = pre

\* a database with a table of its own, refused
C7_Witness ==
    /\ Returned
    /\ ret = Error("unmanaged schema", "")
    /\ ~fault
    /\ \E r \in pre.catalog : r.name = "t" /\ r.type = "table"

\* C8: with an empty ledger and a database that has objects and the digest of
\* s.Current, Apply returns nil without executing s.Current, leaves the
\* structure as it was and a ledger of one record, for the digest of s.Current.
C8_Compatible ==
    (Returned /\ Consistent /\ ~fault /\ pre.ledger = {}
       /\ pre.catalog # {}
       /\ LiveDigestBefore = CurrentDigest)
    => /\ ret = Nil
       /\ ~ranCurrent
       /\ readSchema(db.catalog) = readSchema(pre.catalog)
       /\ db.catalog = pre.catalog \cup historyTableRows
       /\ OneRecordOfCurrent(db.ledger)

\* the schema V1 found in the database, adopted under the text V1c
C8_Witness ==
    /\ Succeeded
    /\ pre.ledger = {}
    /\ readSchema(pre.catalog) # <<>>
    /\ s.Current = V1c
    /\ ~ranCurrent

\* C9, as stated: when the ledger is not empty and its latest record has the
\* digest of s.Current, Apply returns nil and writes nothing, whatever the
\* rest of the state.
C9_AsStated ==
    (Returned /\ Consistent /\ ~fault /\ pre.ledger # {}
       /\ LatestRecord(pre.ledger).digest = CurrentDigest)
    => /\ ret = Nil
       /\ db = pre
       /\ ran = <<>>

\* C10: with a consistent Schema, a ledger that is not empty and a database
\* whose digest is not that of s.Current, Apply fails with "no update found"
\* exactly when the digest is neither the Source nor the Target of any rule
\* (no database call failing); no rule is run then, and nothing changes.
C10_NoUpdateFound ==
    (Returned /\ Consistent /\ ~fault /\ pre.ledger # {}
       /\ LiveDigestBefore # CurrentDigest)
    => /\ ret.err = "no update found"
          <=> \A k \in 1..Len(s.Updates) :
                 /\ s.Updates[k].Source # LiveDigestBefore
                 /\ s.Updates[k].Target # LiveDigestBefore
       /\ ret.err = "no update found" => (ran = <<>> /\ db = pre /\ ret.cause = "")

\* a list of rules that has no rule for the digest of the database
C10_Witness ==
    /\ Returned
    /\ ret.err = "no update found"
    /\ s.Updates # <<>>
    /\ pre.ledger # {}

\* the records a call added to the ledger
Appended == db.ledger \ pre.ledger

\* C11: a successful upgrade that ran one rule or more keeps the records it
\* found and adds exactly one, for the digest of s.Current, none for the
\* targets in between; from a database bootstrapped at v1, the rules v1->v2,
\* v2->v3 and Current v3 leave the two records of v1 and v3.
C11_OneRecordPerUpgrade ==
    (Succeeded /\ ran # <<>>)
    => /\ pre.ledger \subseteq db.ledger
       /\ Cardinality(Appended) = 1
       /\ \A r \in Appended : r.digest = CurrentDigest
       /\ (s = [Current |-> V3, Updates |-> <<R12, R23>>]
             /\ {r.digest : r \in pre.ledger} = {d1} /\ Cardinality(pre.ledger) = 1)
          => (Cardinality(db.ledger) = 2 /\ {r.digest : r \in db.ledger} = {d1, d3})

\* the upgrade v1 -> v2 -> v3 of a database bootstrapped at v1
C11_Witness ==
    /\ Succeeded
    /\ s = [Current |-> V3, Updates |-> <<R12, R23>>]
    /\ Len(ran) = 2
    /\ {r.digest : r \in pre.ledger} = {d1}
    /\ Cardinality(db.ledger) = 2

\* C12, as stated: after every Apply that returned nil, the record with the
\* greatest timestamp has the digest of s.Current.
C12_AsStated ==
    Succeeded => (db.ledger # {} /\ LatestRecord(db.ledger).digest = CurrentDigest)

\* C14: Apply with a Schema that Check refuses returns at once: it never
\* leaves the start for a later stage, opens no transaction, creates no ledger
\* table, executes nothing, and the database is what it was.
C14_CheckFirst ==
    (pc # "idle" /\ Check(s) # <<>>)
    => /\ Returned
       /\ ret = Error("check", "")
       /\ tx = <<>>
       /\ ~fault
       /\ db = pre
       /\ ran = <<>>
       /\ ~ranCurrent

\* a list of rules that does not lead to s.Current, refused on a database
\* without a ledger table
C14_Witness ==
    /\ Returned
    /\ ret = Error("check", "")
    /\ s.Updates # <<>>
    /\ ~NameTaken(db.catalog, historyTableName)

\* no row of a canonical form belongs to the ledger table or to
\* sqlite_sequence, or is a generated index
NoneSkipped(rows) ==
    \A k \in 1..Len(rows) :
        /\ rows[k].TableName # historyTableName
        /\ rows[k].TableName # sequenceTableName
        /\ ~HasAutoindexPrefix(rows[k].Name)

\* C20: the canonical form of the database, inside and outside the
\* transaction, holds no row of the ledger table, of sqlite_sequence or of a
\* generated index; so the digest is the same with and without the ledger
\* table, and stages 1 and the recording of a version leave it as it was.
C20_LedgerNotInDigest ==
    /\ NoneSkipped(readSchema(db.catalog))
    /\ DBDigest(db.catalog \cup historyTableRows) = DBDigest(db.catalog \ historyTableRows)
    /\ tx # <<>> => NoneSkipped(readSchema(tx[1].catalog))
    /\ pc \in {"stage2", "stage3", "case1", "case2", "case3"}
       => DBDigest(tx[1].catalog) = DBDigest(pre.catalog)
    /\ (pc = "commit" /\ ~ranCurrent /\ ran = <<>>)
       => (tx[1].ledger # pre.ledger /\ DBDigest(tx[1].catalog) = DBDigest(pre.catalog))
    /\ Succeeded => DBDigest(db.catalog) = DBDigest(db.catalog \ historyTableRows)

\* a committed database with the ledger table, its index, sqlite_sequence and
\* two records
C20_Witness ==
    /\ Succeeded
    /\ historyTableRows \subseteq db.catalog
    /\ sequenceTableRow \in db.catalog
    /\ Cardinality(db.ledger) = 2
    /\ readSchema(db.catalog) # <<>>

\* the 1-based positions of the rules that have the digest as their Source
Occurrences(updates, digest) == {k \in 1..Len(updates) : updates[k].Source = digest}

LastOccurrence(updates, digest) ==
    CHOOSE k \in Occurrences(updates, digest) :
        \A m \in Occurrences(updates, digest) : m <= k

\* the catalog the loop starts from: the database with the ledger table
CatalogBefore == pre.catalog \cup historyTableRows

\* the upgrade, had it started at the rule in position k
StartAt(k) == RunUpdates(CatalogBefore, s.Updates, k - 1, 0)

\* the rules from position k up to the last occurrence, run in turn
Between(k) ==
    RunUpdates(CatalogBefore,
               SubSeq(s.Updates, 1, LastOccurrence(s.Updates, LiveDigestBefore) - 1),
               k - 1, 0)

\* every pending rule of the call ran and was confirmed
UpgradeDone ==
    /\ ran # <<>>
    /\ Len(ran) = Len(s.Updates) - i
    /\ ran[Len(ran)].ok
    /\ ran[Len(ran)].conf = ran[Len(ran)].rule.Target

\* a call that reached the loop and returned, none of its database calls failing
UpgradeReturned ==
    /\ Returned
    /\ Consistent
    /\ ~fault
    /\ pre.ledger # {}
    /\ LiveDigestBefore # CurrentDigest
    /\ Occurrences(s.Updates, LiveDigestBefore) # {}

C18_UpdateFailed ==
    \A k \in 1..Len(ran) :
        ~ran[k].ok
        => /\ k = Len(ran)
           /\ Returned
           /\ ret.err = "update failed"
           /\ ret.cause \in {"sql", "io"}
           /\ ret.at = ran[k].rule.Source
           /\ \A m \in 1..(k - 1) : ran[m].ok /\ ran[m].conf = ran[m].rule.Target
           /\ db = pre

\* the second rule of an upgrade failed after the first had changed the schema
C18_Witness ==
    /\ Returned
    /\ Len(ran) = 2
    /\ ~ran[2].ok
    /\ ret = UpdateError(ran[2].rule, "sql")
    /\ ran[1].conf # LiveDigestBefore

(***************************************************************************)
(* Properties of Check.                                                    *)
(***************************************************************************)
Checked == pc = "checked"

\* errs has an error with this message for the rule in position k
Reports(msg, k) == \E n \in 1..Len(errs) : errs[n].msg = msg /\ errs[n].index = k

\* the conditions of a consistent Schema
WellFormed(sch) ==
    /\ sch.Current # <<>>
    /\ SQLDigest(sch.Current).ok
    /\ \A k \in 1..Len(sch.Updates) :
          /\ sch.Updates[k].Source # NoDigest
          /\ sch.Updates[k].Target # NoDigest
          /\ ~sch.Updates[k].Apply.nil
    /\ \A k \in 2..Len(sch.Updates) : sch.Updates[k].Source = sch.Updates[k - 1].Target
    /\ Len(sch.Updates) > 0
       => sch.Updates[Len(sch.Updates)].Target = SQLDigest(sch.Current).digest

\* C15: Check returns nil exactly when Current is not empty and compiles,
\* every rule has a Source, a Target and a function, every rule after the
\* first has the Target of the rule before it as its Source, and the Target of
\* the last rule, if there is a rule, is the digest of Current.
C15_CheckNilIff == Checked => ((ret = Nil) <=> WellFormed(s))

\* a list of two rules that Check accepts
C15_Witness == Checked /\ ret = Nil /\ Len(s.Updates) = 2

\* every missing Source, Target and function of every rule is reported
ReportsMissing ==
    \A k \in 1..Len(s.Updates) :
        /\ s.Updates[k].Source = NoDigest => Reports("missing source", k)
        /\ s.Updates[k].Target = NoDigest => Reports("missing target", k)
        /\ s.Updates[k].Apply.nil => Reports("missing Apply function", k)

\* C16, as stated: for a Current that is not empty, the error reports every
\* missing Source, Target and function, every rule whose Source is not the
\* Target of the rule before it, and a last Target that is not the digest of
\* Current.
C16_AsStated ==
    (Checked /\ s.Current # <<>>)
    => /\ ReportsMissing
       /\ \A k \in 2..Len(s.Updates) :
             s.Updates[k].Source # s.Updates[k - 1].Target => Reports("want source", k)
       /\ (Len(s.Updates) > 0
             /\ s.Updates[Len(s.Updates)].Target # SQLDigest(s.Current).digest)
          => Reports("missing upgrade", 0)

\* C16, amended: for a Current that is not empty and compiles, the error
\* reports every missing Source, Target and function, every rule whose Source
\* is not the Target of the rule before it when that Target is not missing,
\* and a last Target that is not missing and is not the digest of Current.
C16_AllProblems ==
    (Checked /\ s.Current # <<>> /\ SQLDigest(s.Current).ok)
    => /\ ReportsMissing
       /\ \A k \in 2..Len(s.Updates) :
             (s.Updates[k - 1].Target # NoDigest
                /\ s.Updates[k].Source # s.Updates[k - 1].Target)
             => Reports("want source", k)
       /\ (Len(s.Updates) > 0
             /\ s.Updates[Len(s.Updates)].Target # NoDigest
             /\ s.Updates[Len(s.Updates)].Target # SQLDigest(s.Current).digest)
          => Reports("missing upgrade", 0)

\* an error that joins a problem of the first rule, one of the second, and
\* the missing upgrade to Current
C16_Witness ==
    /\ Checked
    /\ Len(s.Updates) = 2
    /\ Reports("missing source", 1)
    /\ Reports("want source", 2)
    /\ Reports("missing Apply function", 2)
    /\ Reports("missing upgrade", 0)

\* C17, as stated: for adjacent rules (a,b), (c,d) with b # c, Check reports
\* an error with the position of the second rule, counted from 1, the source
\* b it wants and the source c it got.
C17_AsStated ==
    (Checked /\ s.Current # <<>> /\ SQLDigest(s.Current).ok)
    => \A k \in 2..Len(s.Updates) :
          s.Updates[k].Source # s.Updates[k - 1].Target
          => \E n \in 1..Len(errs) :
                errs[n] = CheckError("want source", k, s.Updates[k - 1].Target,
                                     s.Updates[k].Source)

\* C17, amended: the same, for a b that is not the empty string.
C17_BadStitch ==
    (Checked /\ s.Current # <<>> /\ SQLDigest(s.Current).ok)
    => \A k \in 2..Len(s.Updates) :
          (s.Updates[k - 1].Target # NoDigest
             /\ s.Updates[k].Source # s.Updates[k - 1].Target)
          => \E n \in 1..Len(errs) :
                errs[n] = CheckError("want source", k, s.Updates[k - 1].Target,
                                     s.Updates[k].Source)

\* the rules (d1,d2), (d1,d2): the second wants the source d2 and got d1
C17_Witness ==
    /\ Checked
    /\ Len(s.Updates) = 2
    /\ s.Updates[1].Target = d2
    /\ s.Updates[2].Source = d1
    /\ \E n \in 1..Len(errs) : errs[n] = CheckError("want source", 2, d2, d1)

(***************************************************************************)
(* Properties of Validate.                                                 *)
(***************************************************************************)
\* Validate has returned, its text compiles and its queries did not fail
Validated == pc = "validated" /\ ~fault /\ schemaTextToRows(s.Current).ok

LiveRows == readSchema(db.catalog)
TextRows == schemaTextToRows(s.Current).rows

\* the Diff has a heading with this verb for the row
Names(op, r) == \E n \in 1..Len(diff) : diff[n] = DiffEntry(op, r)

\* every object of the database that the text lacks, and every object of the
\* text that the database lacks, is named
NamesRemovedAndAdded ==
    /\ \A k \in 1..Len(LiveRows) :
          ~HasKey(TextRows, mapKey(LiveRows[k])) => Names("Remove", LiveRows[k])
    /\ \A k \in 1..Len(TextRows) :
          ~HasKey(LiveRows, mapKey(TextRows[k])) => Names("Add", TextRows[k])

\* a row without what the comparison disregards: the SQL of a table, and the
\* space around the lines of the SQL of another object
Structure(r) ==
    IF r.Type = "table" THEN [r EXCEPT !.SQL = <<>>]
    ELSE [r EXCEPT !.SQL = cleanSQL(r.SQL)]

Structures(rows) == [k \in 1..Len(rows) |-> Structure(rows[k])]

\* C19, as stated: Validate returns nil exactly when the rows read from the
\* database are equal to the rows read from the compiled text; otherwise it
\* returns a ValidationError whose Diff names every object added, removed or
\* changed.
C19_AsStated ==
    Validated
    => /\ (ret = Nil) <=> (LiveRows = TextRows)
       /\ ret # Nil
          => /\ ret = Error("invalid schema", "")
             /\ NamesRemovedAndAdded
             /\ \A k \in 1..Len(LiveRows) :
                   (HasKey(TextRows, mapKey(LiveRows[k]))
                      /\ Lookup(TextRows, mapKey(LiveRows[k])) # LiveRows[k])
                   => Names("Modify", LiveRows[k])

\* C19, amended: the same, the rows being compared without the SQL of tables
\* and with the SQL of other objects trimmed line by line.
C19_Validate ==
    Validated
    => /\ (ret = Nil) <=> (Structures(LiveRows) = Structures(TextRows))
       /\ ret = Nil => diff = <<>>
       /\ ret # Nil
          => /\ ret = Error("invalid schema", "")
             /\ NamesRemovedAndAdded
             /\ \A k \in 1..Len(LiveRows) :
                   (HasKey(TextRows, mapKey(LiveRows[k]))
                      /\ Structure(Lookup(TextRows, mapKey(LiveRows[k])))
                         # Structure(LiveRows[k]))
                   => Names("Modify", LiveRows[k])

\* a database with the ledger table that lacks a view of the text, has a table
\* the text lacks, and has a table with other columns
C19_Witness ==
    /\ Validated
    /\ ret = Error("invalid schema", "")
    /\ historyTableRows \subseteq db.catalog
    /\ \E n \in 1..Len(diff) : diff[n].op = "Remove" /\ diff[n].Type = "table"
    /\ \E n \in 1..Len(diff) : diff[n].op = "Modify" /\ diff[n].Type = "table"
    /\ \E n \in 1..Len(diff) : diff[n].op = "Add" /\ diff[n].Type = "view"

(***************************************************************************)
(* Properties of the digests and of the catalog reader.                    *)
(***************************************************************************)
\* the call of DBDigest read every row of the catalog
ReadWhole == pc \in {"read", "compared"} /\ ~fault

\* C21: whatever order the engine returns the rows of the catalog in, the
\* digest of a database that was read whole is the same: it is the digest of
\* the rows sorted by (type, name, table name, SQL), and the rows returned are
\* the same sequence for every order.
C21_OrderFree ==
    ReadWhole =>
        /\ \A order \in Orders(db.catalog) :
               /\ readRows(order) = out.rows
               /\ schemaDigest(readRows(order)) = latestHash
        /\ \A m, n \in 1..Len(out.rows) :
               m < n => compareSchemaRows(out.rows[m], out.rows[n]) < 0

\* C21 happens: a database of three objects was read whole, in an order that
\* is not the sorted one
C21_Witness ==
    /\ ReadWhole
    /\ Len(out.rows) >= 3
    /\ \E m, n \in 1..Len(out.from) :
          /\ m < n
          /\ ~Skipped(out.from[m])
          /\ ~Skipped(out.from[n])
          /\ compareSchemaRows(readRows(<<out.from[m]>>)[1], readRows(<<out.from[n]>>)[1]) > 0

\* DBDigest read the whole catalog and SQLDigest compiled a text
Compared == pc = "compared" /\ ~fault /\ SQLDigest(s.Current).ok

\* the tables among some rows, each by its name and column descriptors, and
\* the other objects, each with its SQL cleaned
TablesOf(rows) ==
    {<<rows[k].Name, rows[k].TableName, rows[k].Columns>> :
        k \in {n \in 1..Len(rows) : rows[n].Type = "table"}}

OthersOf(rows) ==
    {[rows[k] EXCEPT !.SQL = cleanSQL(rows[k].SQL)] :
        k \in {n \in 1..Len(rows) : rows[n].Type # "table"}}

\* the SQL text stored for the tables among some rows
TableSQLOf(rows) ==
    {<<rows[k].Name, rows[k].SQL>> : k \in {n \in 1..Len(rows) : rows[n].Type = "table"}}

\* C22: the SQL text of a table does not contribute to the digest, its column
\* descriptors do.  A database and a text whose tables have the same names and
\* the same column descriptors (and whose other objects agree) have the same
\* digest, whatever SQL is stored for the tables; if the tables differ in a
\* name or in any field of a column descriptor, the digests differ.
C22_TableSQL ==
    Compared =>
        LET live == out.rows
            text == schemaTextToRows(s.Current).rows
        IN  /\ (TablesOf(live) = TablesOf(text) /\ OthersOf(live) = OthersOf(text))
                  => latestHash = curHash
            /\ TablesOf(live) # TablesOf(text) => latestHash # curHash

\* C22 happens: a table reached by ALTER TABLE ADD COLUMN and the same table
\* made by CREATE TABLE, their stored SQL different, have one digest
C22_Witness ==
    /\ Compared
    /\ latestHash = curHash
    /\ TablesOf(out.rows) # {}
    /\ TableSQLOf(out.rows) # TableSQLOf(schemaTextToRows(s.Current).rows)

\* C27, as stated: the catalog reader never returns a partial result.  If
\* the query, the decoding of a row, the reading of a table's columns or the
\* iteration of the result set failed, DBDigest returns an error, no rows and
\* no digest; rows are returned only when every row of the catalog was read.
C27_AsStated ==
    pc \in {"read", "compared"} =>
        /\ fault => (ret # Nil /\ out.rows = <<>> /\ latestHash = NoDigest)
        /\ ret = Nil => out.rows = readRows(out.from)

(***************************************************************************)
(* Properties of the ledger.                                               *)
(***************************************************************************)
\* History returned, no database call of it having failed
HistoryRead == pc = "history" /\ ~fault

\* C23: History returns every record of the ledger, each exactly once, in
\* chronological order, wherever the records stand in the table.
C23_Chronological ==
    HistoryRead =>
        /\ ret = Nil
        /\ Len(hr) = Cardinality(db.ledger)
        /\ \A row \in db.ledger :
              Cardinality({k \in 1..Len(hr) :
                  /\ hr[k].Timestamp = TimeOfUnixMicro(row.timestamp)
                  /\ hr[k].Digest = row.digest
                  /\ hr[k].Schema = uncompress(ScanBytes(row.schema))}) = 1
        /\ \A m, n \in 1..Len(hr) :
              m < n => UnixMicro(hr[m].Timestamp) <= UnixMicro(hr[n].Timestamp)

\* C23 happens: History returned a ledger of two records or more
C23_Witness ==
    /\ HistoryRead
    /\ Len(hr) >= 2
    /\ hr[1].Timestamp # hr[2].Timestamp

\* C24: the ledger is append-only across Apply calls.  No step of any call
\* removes or changes a record of the live database; a call that returns nil
\* has added no record or one, and a call that returns an error has added
\* none.
C24_AppendOnly ==
    [][ /\ db.ledger \subseteq db'.ledger
        /\ (pc # "done" /\ pc' = "done") =>
              /\ pre'.ledger \subseteq db'.ledger
              /\ IF ret' = Nil
                 THEN Cardinality(db'.ledger \ pre'.ledger) <= 1
                 ELSE db'.ledger = pre'.ledger ]_vars

\* C24 happens: a call that found a record in the ledger returned nil, the
\* record kept and one added
C24_Witness ==
    /\ Succeeded
    /\ pre.ledger # {}
    /\ pre.ledger \subseteq db.ledger
    /\ Cardinality(Appended) = 1

\* the blob stored in the record that a row of History's result was made of
BlobOf(h) ==
    (CHOOSE row \in db.ledger : row.timestamp = UnixMicro(h.Timestamp)).schema

\* C29: History does not fail because a stored blob cannot be decompressed.
\* For every row it returns, Schema is the empty string if the blob is NULL
\* or empty, the text itself if the blob is what compress made of a text, and
\* the bytes of the blob as they are if the blob is not valid compressed
\* data; and when History returns an error, a database call had failed.
C29_Uncompress ==
    pc = "history" =>
        /\ ret # Nil => fault
        /\ ret = Nil => \A k \in 1..Len(hr) :
              LET blob == BlobOf(hr[k])
              IN  /\ blob \in {Null, <<>>} => hr[k].Schema = <<>>
                  /\ \A text \in Texts \cup {VEmpty} :
                        blob = compress(text) => hr[k].Schema = text
                  /\ (blob \notin {Null, <<>>} /\ ~ValidFrame(blob)) => hr[k].Schema = blob
        /\ ~fault => Len(hr) = Cardinality(db.ledger)

\* C29 happens: History returned a ledger with a damaged blob and a text
\* stored as it is, each as its bytes
C29_Witness ==
    /\ HistoryRead
    /\ Len(hr) = 2
    /\ BlobOf(hr[1]) = <<ZstdMagic, CreateFooX, ZstdDamage>>
    /\ hr[1].Schema = <<ZstdMagic, CreateFooX, ZstdDamage>>
    /\ BlobOf(hr[2]) = V1
    /\ hr[2].Schema = V1

(***************************************************************************)
(* Properties of the apply functions.                                      *)
(***************************************************************************)
Executed == pc = "executed"

\* the statements of the function that was called
Called == ran[1].rule.Apply.stmts

\* the catalog after the first n statements of the function, each run on its
\* own, and whether each of them succeeded
RECURSIVE AfterStmts(_, _)
AfterStmts(cat, n) ==
    IF n = 0 THEN Done(cat)
    ELSE LET before == AfterStmts(cat, n - 1)
         IN  IF before.ok THEN ExecStmt(before.cat, Called[n]) ELSE before

\* C25: the function Exec returns runs the statements in the order given.
\* It returns nil only if every statement succeeded, the transaction then
\* holding the effect of all of them in order; otherwise it returns an error
\* that names the 1-based position of the first statement that failed, the
\* statements before it having been run and none after it, and if no call
\* failed for another reason that statement is one the engine refuses.
\* NoAction changes nothing and returns nil.
C25_Exec ==
    Executed =>
        /\ ret = Nil =>
              /\ AfterStmts(db.catalog, Len(Called)).ok
              /\ tx[1].catalog = AfterStmts(db.catalog, Len(Called)).cat
        /\ ret # Nil =>
              /\ ret.err = "stmt"
              /\ ret.stmt \in 1..Len(Called)
              /\ AfterStmts(db.catalog, ret.stmt - 1).ok
              /\ tx[1].catalog = AfterStmts(db.catalog, ret.stmt - 1).cat
              /\ ret.cause = "sql" => ~AfterStmts(db.catalog, ret.stmt).ok
              /\ ~fault => ret.cause = "sql"
        /\ (~fault /\ ~AfterStmts(db.catalog, Len(Called)).ok) => ret # Nil
        /\ ran[1].rule.Apply = NoAction => (ret = Nil /\ tx[1].catalog = db.catalog)

\* C25 happens: the second of three statements failed, the first had changed
\* the catalog, and the third, which the engine would have accepted, was not
\* run
C25_Witness ==
    /\ Executed
    /\ Len(Called) = 3
    /\ ret # Nil
    /\ ret.stmt = 2
    /\ tx[1].catalog # db.catalog
    /\ ExecStmt(tx[1].catalog, Called[3]).ok

(***************************************************************************)
(* Properties of the search for the first rule to run.                     *)
(***************************************************************************)
\* the call has searched s.Updates for the digest of the database
Searched ==
    \/ pc = "loop"
    \/ Returned /\ (ret.err = "no update found" \/ ran # <<>>)

\* C26: firstPendingUpdate(d) is the greatest index whose rule has Source d,
\* and -1 if no rule has; of several rules with Source d the last is chosen.
C26_LastOccurrence ==
    Searched =>
        LET hits == {k \in 1..Len(s.Updates) : s.Updates[k].Source = latestHash}
        IN  /\ hits = {} <=> i = -1
            /\ hits # {} => (i + 1 \in hits /\ \A k \in hits : k <= i + 1)

\* C26 happens: the digest of the database is the Source of two rules, and
\* the search has returned the second
C26_Witness ==
    /\ pc = "loop"
    /\ j = 0
    /\ Cardinality({k \in 1..Len(s.Updates) : s.Updates[k].Source = latestHash}) = 2
    /\ i = 2

(***************************************************************************)
(* Properties of the handling of failures.                                 *)
(***************************************************************************)
\* C28, as stated: whenever a database call of an Apply call failed, Apply
\* returns an error that is or wraps that failure; the failure is not
\* swallowed, turned into a success or replaced by another diagnosis.
C28_AsStated == (Returned /\ fault) => (ret # Nil /\ ret.cause = "io")

(***************************************************************************)
(* Properties of the effect of Validate on the database.                   *)
(***************************************************************************)
\* C30: Validate, with the compilation of the text that SQLDigest makes and
\* the reading of the database that DBDigest makes, leaves the live database
\* unchanged.  No step changes it; the text is executed in an instance that
\* is empty when the step begins, whatever the live database holds, so that
\* the outcome of the compilation is that of the text alone; and when the
\* call returns, with nil or with an error, nothing of the instance is left.
C30_LiveUnchanged ==
    /\ db = pre
    /\ tx = <<>> \/ pc = "compile"
    /\ pc = "compile" => tx = <<Database({}, {})>>
    /\ pc = "live" => (schemaTextToRows(s.Current).ok /\ out.rows = schemaTextToRows(s.Current).rows)
    /\ (pc = "validated" /\ ret = Error("compile schema", "sql"))
          => ~schemaTextToRows(s.Current).ok
    /\ (pc = "validated" /\ ~fault /\ ret # Error("compile schema", "sql"))
          => (ret = Validate(db.catalog, s.Current).err /\ diff = Validate(db.catalog, s.Current).diff)

\* C30 happens: Validate returned nil for a text that defines the tables the
\* live database has, which the live database would refuse to execute
C30_Witness ==
    /\ pc = "validated"
    /\ ~fault
    /\ ret = Nil
    /\ s.Current # <<>>
    /\ ~ExecText(db.catalog, s.Current).ok
    /\ db = pre

(***************************************************************************)
(* Properties of diffSchema.                                               *)
(***************************************************************************)
\* the object is on both sides and differs: a table by its columns, another
\* object by its SQL with the space around its lines removed
Changed(r, o) ==
    IF r.Type = "table" THEN r.Columns # o.Columns
    ELSE cleanSQL(r.SQL) # cleanSQL(o.SQL)

OnlyLeft(r) == ~HasKey(TextRows, mapKey(r))
OnlyRight(r) == ~HasKey(LiveRows, mapKey(r))
OnBothChanged(r) ==
    HasKey(TextRows, mapKey(r)) /\ Changed(r, Lookup(TextRows, mapKey(r)))

\* the heading at a place of the Diff is the one of a row of the side
HeadingOf(n, op, rows) ==
    \E k \in 1..Len(rows) : diff[n] = DiffEntry(op, rows[k])

\* the lines of the SQL of the row follow its heading at place n
DefinitionFollows(n, r) ==
    /\ n + Len(Lines(r.SQL)) <= Len(diff)
    /\ \A m \in 1..Len(Lines(r.SQL)) : diff[n + m] = DiffLine(r, Lines(r.SQL)[m])

\* C31: diffSchema writes a Remove entry for exactly the objects of the left
\* side only, an Add entry followed by the definition for exactly the objects
\* of the right side only, and a Modify entry for exactly the objects of both
\* sides whose columns (tables) or trimmed SQL (other objects) differ; the
\* result is empty exactly when there is no such object, and the difference
\* of a side with itself is empty.
C31_Entries ==
    Validated
    => /\ \A k \in 1..Len(LiveRows) :
             /\ Names("Remove", LiveRows[k]) <=> OnlyLeft(LiveRows[k])
             /\ Names("Modify", LiveRows[k]) <=> OnBothChanged(LiveRows[k])
       /\ \A k \in 1..Len(TextRows) :
             Names("Add", TextRows[k]) <=> OnlyRight(TextRows[k])
       /\ \A n \in 1..Len(diff) :
             /\ diff[n].op \in {"Remove", "Modify", "Add", "+"}
             /\ diff[n].op \in {"Remove", "Modify"} => HeadingOf(n, diff[n].op, LiveRows)
             /\ diff[n].op = "Add" => HeadingOf(n, "Add", TextRows)
             /\ diff[n].op = "+" => \E m \in 1..(n - 1) : diff[m].op = "Add"
       /\ \A n \in 1..Len(diff) : \A k \in 1..Len(TextRows) :
             (diff[n] = DiffEntry("Add", TextRows[k]) /\ TextRows[k].SQL # <<>>)
             => DefinitionFollows(n, TextRows[k])
       /\ (diff = <<>>)
          <=> /\ \A k \in 1..Len(LiveRows) :
                    ~OnlyLeft(LiveRows[k]) /\ ~OnBothChanged(LiveRows[k])
              /\ \A k \in 1..Len(TextRows) : ~OnlyRight(TextRows[k])
       /\ diffSchema(LiveRows, LiveRows) = <<>>
       /\ diffSchema(TextRows, TextRows) = <<>>

\* a table is removed, a view is modified and a table is added with the lines
\* of its definition
C31_Witness ==
    /\ Validated
    /\ \E n \in 1..Len(diff) : diff[n].op = "Remove" /\ diff[n].Type = "table"
    /\ \E n \in 1..Len(diff) : diff[n].op = "Modify" /\ diff[n].Type = "view"
    /\ \E n \in 1..(Len(diff) - 1) :
          /\ diff[n].op = "Add" /\ diff[n].Type = "table"
          /\ diff[n + 1].op = "+" /\ diff[n + 1].line # <<>>

\* the place in the rows of the object a heading names
PlaceIn(rows, e) ==
    CHOOSE k \in 1..Len(rows) : mapKey(rows[k]) = <<e.Type, e.Name>>

LeftHeading(e) == e.op \in {"Remove", "Modify"}

\* C32: the entries of diffSchema are in a fixed order: the Remove and Modify
\* entries in the order of the left sequence, then the Add entries in the
\* order of the right sequence.
C32_Order ==
    Validated
    => \A n \in 1..Len(diff) : \A m \in (n + 1)..Len(diff) :
          /\ diff[n].op \in {"Add", "+"} => ~LeftHeading(diff[m])
          /\ (LeftHeading(diff[n]) /\ LeftHeading(diff[m]))
             => PlaceIn(LiveRows, diff[n]) < PlaceIn(LiveRows, diff[m])
          /\ (diff[n].op = "Add" /\ diff[m].op = "Add")
             => PlaceIn(TextRows, diff[n]) < PlaceIn(TextRows, diff[m])

\* a Remove entry, then a Modify entry, then an Add entry
C32_Witness ==
    /\ Validated
    /\ \E n \in 1..Len(diff) : \E m \in (n + 1)..Len(diff) :
          /\ diff[n].op = "Remove" /\ diff[m].op = "Modify"
          /\ \E o \in (m + 1)..Len(diff) : diff[o].op = "Add"

(***************************************************************************)
(* Properties of the records of the ledger.                                *)
(***************************************************************************)
UniqueTimestamps(ledger) ==
    \A x, y \in ledger : x.timestamp = y.timestamp => x = y

\* the call handed a record to addVersion whose timestamp, in microseconds,
\* is that of a record the ledger had
StampTaken ==
    /\ written # <<>>
    /\ \E old \in pre.ledger : old.timestamp = UnixMicro(written[1].Timestamp)

\* C33: no two records of the ledger have the same timestamp in microseconds;
\* an Apply whose record would carry the timestamp of an existing record
\* fails at the insert, returns an error, and leaves the database as it was
\* when the call began, the rules it had applied included.
C33_UniqueTimestamp ==
    /\ UniqueTimestamps(db.ledger)
    /\ tx # <<>> => UniqueTimestamps(tx[1].ledger)
    /\ (Returned /\ StampTaken)
       => /\ ret # Nil
          /\ ~fault => ret = Error("record schema", "sql")
          /\ db = pre
          /\ tx = <<>>

\* a call that applied a rule and then failed at the insert, the timestamp
\* being taken
C33_Witness ==
    /\ Returned
    /\ ~fault
    /\ StampTaken
    /\ ret = Error("record schema", "sql")
    /\ ran # <<>>
    /\ \A k \in 1..Len(ran) : ran[k].ok
    /\ db = pre

\* the time truncated to microseconds, in UTC
Truncated(t) == [us |-> t.us, ns |-> 0, loc |-> "UTC"]

SelfConsistent(row) == SQLDigest(row.Schema).digest = row.Digest

\* C35: every record Apply writes carries the digest of the schema text it
\* carries, and History returns the digest and the text that were written,
\* with the time of writing truncated to microseconds, in UTC.
C35_Record ==
    /\ \A k \in 1..Len(History(db.ledger)) : SelfConsistent(History(db.ledger)[k])
    /\ written # <<>>
       => /\ SelfConsistent(written[1])
          /\ written[1].Schema = s.Current
    /\ (Succeeded /\ written # <<>>)
       => \E k \in 1..Len(History(db.ledger)) :
             History(db.ledger)[k]
               = HistoryRow(Truncated(written[1].Timestamp), written[1].Digest,
                            written[1].Schema)

\* a second record was written at a time that is not a whole microsecond
C35_Witness ==
    /\ Succeeded
    /\ written # <<>>
    /\ written[1].Timestamp.ns > 0
    /\ written[1].Timestamp.loc = "Local"
    /\ Cardinality(db.ledger) >= 2

(***************************************************************************)
(* Properties relating Validate and the digests.                           *)
(***************************************************************************)
\* C34: Validate(db, text) returns nil exactly when DBDigest(db) is equal to
\* SQLDigest(text).
C34_ValidateIffDigest ==
    (pc = "validated" /\ ~fault)
    => /\ (ret = Nil)
          <=> (SQLDigest(s.Current).ok
                 /\ DBDigest(db.catalog) = SQLDigest(s.Current).digest)
       /\ ~SQLDigest(s.Current).ok => ret = Error("compile schema", "sql")

\* Validate returned nil for a database whose rows are not the rows of the
\* text: a table differs in its SQL and a view in the space around its lines
C34_Witness ==
    /\ Validated
    /\ ret = Nil
    /\ DBDigest(db.catalog) = SQLDigest(s.Current).digest
    /\ \E k \in 1..Len(LiveRows) :
          /\ LiveRows[k].Type = "table"
          /\ LiveRows[k].SQL # Lookup(TextRows, mapKey(LiveRows[k])).SQL
    /\ \E k \in 1..Len(LiveRows) :
          /\ LiveRows[k].Type = "view"
          /\ LiveRows[k].SQL # Lookup(TextRows, mapKey(LiveRows[k])).SQL

\* the objects of a catalog that readSchema reads, the columns of each taken
\* as a set
ColumnSets(cat) ==
    {[type |-> raw.type, name |-> raw.name, tbl_name |-> raw.tbl_name,
      sql |-> IF raw.type = "table" THEN <<>> ELSE cleanSQL(raw.sql),
      cols |-> {raw.cols[k] : k \in 1..Len(raw.cols)}] : raw \in {x \in cat : ~Skipped(x)}}

\* the catalog the text of the call compiles to
TextCatalog == ExecText({}, s.Current).cat

\* C36: two schemas whose tables declare the same columns, in whatever order,
\* have the same digest, and Validate reports no difference between them.
C36_ColumnOrder ==
    (Validated /\ ColumnSets(db.catalog) = ColumnSets(TextCatalog))
    => /\ DBDigest(db.catalog) = SQLDigest(s.Current).digest
       /\ ret = Nil
       /\ diff = <<>>

\* the table foo of the database declares y before x, that of the text x
\* before y
C36_Witness ==
    /\ Validated
    /\ ColumnSets(db.catalog) = ColumnSets(TextCatalog)
    /\ ret = Nil
    /\ \E a \in db.catalog : \E b \in TextCatalog :
          /\ a.type = "table" /\ b.type = "table"
          /\ a.name = b.name
          /\ a.cols = <<colY, colX>>
          /\ b.cols = <<colX, colY>>

(***************************************************************************)
(* Termination of Apply.                                                   *)
(***************************************************************************)
InCall == pc \notin {"idle", "done"}

\* the place of a stage in the text of Apply
StageRank(stage) ==
    CASE stage = "begin" -> 1
      [] stage = "stage1" -> 2
      [] stage = "stage2" -> 3
      [] stage = "stage3" -> 4
      [] stage \in {"case1", "case2", "case3"} -> 5
      [] stage = "loop" -> 6
      [] stage = "record" -> 7
      [] stage = "commit" -> 8
      [] stage = "done" -> 9

\* a step of the call goes to a later stage, or to the next turn of the loop
Advances ==
    \/ StageRank(pc') > StageRank(pc)
    \/ /\ pc = "loop" /\ pc' = "loop"
       /\ j' = j + 1
       /\ Len(ran') = Len(ran) + 1

\* the rules the call ran are the rules from the pending one on, each once
RanOnce ==
    /\ i + Len(ran) <= Len(s.Updates)
    /\ \A k \in 1..Len(ran) : ran[k].rule = s.Updates[i + k]

\* the three outcomes of a call
CommittedWrites == ret = Nil /\ db # pre /\ tx = <<>>
NoWrites == ret = Nil /\ db = pre /\ tx = <<>>
RolledBack == ret # Nil /\ ret # NotReturned /\ db = pre /\ tx = <<>>

\* C37: every call of Apply returns, in one of three outcomes: success with
\* the writes committed, success without writes when the schema was up to
\* date, or an error with the database as it was; no rule is run twice and
\* no stage is repeated within a call.
C37_Terminates ==
    /\ InCall ~> Returned
    /\ [](Returned => (CommittedWrites \/ NoWrites \/ RolledBack))
    /\ [](Returned => (NoWrites <=> (ret = Nil /\ hr # <<>> /\ latestHash = curHash)))
    /\ []((InCall \/ Returned) => RanOnce)
    /\ [][InCall => Advances]_vars

\* a call that ran two rules, recorded the schema and committed
C37_Witness ==
    /\ Succeeded
    /\ CommittedWrites
    /\ Len(ran) >= 2
    /\ RanOnce
    /\ written # <<>>

=============================================================================
